---- MODULE Spec2Model ----
(***************************************************************************)
(* Model of the Saarthi server (api/index.js, kept as src/unnamed/part_000, *)
(* with middleware.js and model/quiz.js): the three retry loops around the  *)
(* generation service, the AI-backed route handlers that answer with        *)
(* 200/500/503, the scoring of /submit-quiz, the isLoggedIn gate and the    *)
(* database connection with its dbStatus setting.                           *)
(***************************************************************************)
EXTENDS Integers, Sequences, FiniteSets, TLC

VARIABLES ENV, now, req, store, app, session

vars == <<ENV, now, req, store, app, session>>

----------------------------------------------------------------------------
(* Bounds of the model.                                                     *)

NumReqs == 2          \* request slots; the retry specification drives slot 1
TickMs == 1000        \* granularity of the clock
MaxLate == 1000       \* the clock still ticks until a timer is this late
MaxAnswers == 40      \* longest answer array submitted to /submit-quiz
MaxRecords == 11      \* records one user stores in the history specification
MaxSameMs == 2        \* submissions of that user within one millisecond
MaxStored == 3        \* records stored in the two-user specification
MaxClock == 5         \* milliseconds the history specification lets pass
MaxMs == 2            \* milliseconds the two-user specification lets pass
MaxRuns == 3          \* runs of connectToDatabase followed

ReqIds == 1..NumReqs

----------------------------------------------------------------------------
(* Strings of the program that are inspected character by character.        *)

OVERLOADED == <<"o","v","e","r","l","o","a","d","e","d">>

\* String.prototype.includes
Includes(s, sub) ==
  \E i \in 1..(Len(s) - Len(sub) + 1) : SubSeq(s, i, i + Len(sub) - 1) = sub

----------------------------------------------------------------------------
(* Failures.  An error object carries an optional status, an optional       *)
(* message and an optional code.                                            *)

NoStatus == 0         \* error.status is undefined

MkError(name, status, hasMessage, message, code) ==
  [name |-> name, status |-> status, hasMessage |-> hasMessage,
   message |-> message, code |-> code]

\* the value of a variable that holds no error (let lastError;)
NoError == MkError("", NoStatus, FALSE, <<>>, <<>>)

\* genAI is null when GEMINI_API_KEY is not set: genAI.getGenerativeModel throws
NullGenAIError ==
  MkError("TypeError", NoStatus, TRUE,
          <<"C","a","n","n","o","t"," ","r","e","a","d"," ",
            "p","r","o","p","e","r","t","i","e","s"," ","o","f"," ",
            "n","u","l","l">>, <<>>)

\* fileToGenerativePart: throw new Error(`File not found: ${path}`)
FileNotFoundError ==
  MkError("Error", NoStatus, TRUE,
          <<"F","i","l","e"," ","n","o","t"," ","f","o","u","n","d",":"," ",
            "p","r","o","b",".","j","p","g">>, <<>>)

\* statuses the generation service fails with
ServiceStatuses == {NoStatus, 429, 500, 503}

\* messages the generation service fails with
ServiceMessages ==
  { OVERLOADED,
    <<"T","h","e"," ","m","o","d","e","l"," ","i","s"," ">> \o OVERLOADED \o <<".">>,
    <<"O","v","e","r","l","o","a","d","e","d">>,
    <<"o","v","e","r","l","o","a","d">>,
    <<"f","e","t","c","h"," ","f","a","i","l","e","d">>,
    <<>> }

\* failure out = (errorMessage, optional statusCode)
ServiceErrors ==
  { MkError("Error", s, TRUE, m, <<>>) : s \in ServiceStatuses, m \in ServiceMessages }
  \cup { MkError("Error", s, FALSE, <<>>, <<>>) : s \in ServiceStatuses }

\* texts the generation service answers with
ServiceTexts == { <<"#"," ","A">>, <<"o","v","e","r","l","o","a","d","e","d">> }

----------------------------------------------------------------------------
(* One request (or one direct invocation of a generation function).         *)

NoData == [success |-> FALSE]

NoResponse ==
  [status |-> 0, key |-> "", text |-> <<>>, error |-> "", data |-> NoData]

\* req.body of the routes whose parameters the handlers inspect
NoBody ==
  [topic |-> "", difficulty |-> "", type |-> "", count |-> <<>>,
   hasAnswers |-> FALSE, answers |-> <<>>, timeTaken |-> <<>>]

NoUser == ""          \* req.user is undefined

NoDoc == [valid |-> FALSE]

IdleReq ==
  [route |-> "", fn |-> "", pc |-> "idle",
   attempt |-> 0,            \* the loop variable `attempt`
   extCalls |-> 0,           \* calls of model.generateContent made so far
   lastError |-> NoError,    \* the loop's `lastError`
   callState |-> "NotStarted",
   returned |-> <<>>,        \* text the generation function returned
   thrown |-> NoError,       \* error the generation function threw
   caught |-> NoError,       \* error the handler's catch block received
   starts |-> <<>>,          \* time at which each attempt started
   history |-> <<>>,         \* outcome of each attempt, in order
   waits |-> <<>>,           \* backoff waits performed, in order
   wakeAt |-> 0,             \* due time of the pending setTimeout
   file |-> FALSE,           \* req.file is set
   originalname |-> <<>>,    \* req.file.originalname
   onDisk |-> FALSE,         \* the uploaded file exists at req.file.path
   inCloud |-> FALSE,        \* a copy of the upload is kept by the image store
   uploads |-> 0,            \* uploads to the image store made so far
   user |-> NoUser,          \* req.user._id
   body |-> NoBody,          \* req.body
   doc |-> NoDoc,            \* the QuizResult document being saved
   isAuthenticated |-> FALSE, \* what req.isAuthenticated() returns
   nexts |-> 0,              \* calls of next() made by isLoggedIn
   response |-> NoResponse,
   responses |-> 0]          \* responses sent for this request

Succeeded(text) == [ok |-> TRUE, text |-> text, error |-> NoError, at |-> now]
Failed(error) == [ok |-> FALSE, text |-> <<>>, error |-> error, at |-> now]

\* res.status(status).json({ [key]: ... })
Respond(q, status, key, text, error) ==
  [q EXCEPT !.response = [status |-> status, key |-> key, text |-> text,
                          error |-> error, data |-> NoData],
            !.responses = @ + 1,
            !.pc = "done"]

\* res.json({ ... }) with a structured body
RespondData(q, key, data) ==
  [q EXCEPT !.response = [status |-> 200, key |-> key, text |-> <<>>,
                          error |-> "", data |-> data],
            !.responses = @ + 1,
            !.pc = "done"]

\* } catch (error) { ... in a route handler
Caught(q, error) == [q EXCEPT !.caught = error]

\* await new Promise((resolve) => setTimeout(resolve, delay))
Sleep(q, delay) ==
  [q EXCEPT !.pc = "sleeping", !.wakeAt = now + delay,
            !.waits = Append(@, [after |-> q.attempt, delay |-> delay,
                                 from |-> now, until |-> now])]

----------------------------------------------------------------------------
(* POST /ask and textQuery.                                                 *)

ask_isOverload(error) ==
  error.status = 503 \/ (error.hasMessage /\ Includes(error.message, OVERLOADED))

\* res.json({ result: result })
ask_then(q, result) == Respond(q, 200, "result", result, "")

\* the caught error's message sent along with the fixed string
ask_catch_leaks(q, error) ==
  IF ask_isOverload(error)
  THEN Respond(Caught(q, error), 503, "error", error.message,
               "The AI service is currently experiencing high traffic. Please try again in a few minutes.")
  ELSE Respond(Caught(q, error), 500, "error", error.message,
               "I apologize, but I'm having trouble processing your request right now. Please try again in a moment.")

\* the catch block of the /ask handler
ask_catch(q, error) ==
  IF ask_isOverload(error)
  THEN Respond(Caught(q, error), 503, "error", <<>>,
               "The AI service is currently experiencing high traffic. Please try again in a few minutes.")
  ELSE Respond(Caught(q, error), 500, "error", <<>>,
               "I apologize, but I'm having trouble processing your request right now. Please try again in a moment.")

\* one retry too many
textQuery_maxRetries_extra == 3 + 1

textQuery_maxRetries == 3

\* the message compared as a whole instead of searched
textQuery_isOverload_exact(error) ==
  error.status = 503 \/ (error.hasMessage /\ error.message = OVERLOADED)

textQuery_isOverload(error) ==
  error.status = 503 \/ (error.hasMessage /\ Includes(error.message, OVERLOADED))

\* throw error;
textQuery_throw(q, error) ==
  ask_catch([q EXCEPT !.callState = "TerminalFailure", !.thrown = error], error)

\* the loop test `attempt <= maxRetries` in place of `attempt < maxRetries`
textQuery_catch_sleepsLast(q, error) ==
  LET q1 == [q EXCEPT !.lastError = error, !.history = Append(@, Failed(error))]
  IN IF textQuery_isOverload(error) /\ q1.attempt <= textQuery_maxRetries
     THEN Sleep(q1, q1.attempt * 2000)
     ELSE textQuery_throw(q1, error)

\* the catch block of the loop body
textQuery_catch(q, error) ==
  LET q1 == [q EXCEPT !.lastError = error, !.history = Append(@, Failed(error))]
  IN IF textQuery_isOverload(error) /\ q1.attempt < textQuery_maxRetries
     THEN Sleep(q1, q1.attempt * 2000)
     ELSE textQuery_throw(q1, error)

\* the try block of iteration `attempt`, up to the await of generateContent
textQuery_try(q, attempt) ==
  LET q1 == [q EXCEPT !.attempt = attempt, !.callState = "Attempting",
                      !.starts = Append(@, now)]
  IN IF ENV.GEMINI_KEY
     THEN [q1 EXCEPT !.pc = "calling", !.extCalls = @ + 1]
     ELSE textQuery_catch(q1, NullGenAIError)

\* `continue`: attempt++, the loop test, then the next iteration; after the
\* loop, throw lastError
textQuery_continue(q) ==
  IF q.attempt + 1 <= textQuery_maxRetries
  THEN textQuery_try(q, q.attempt + 1)
  ELSE textQuery_throw(q, q.lastError)

\* the `return` left out: the loop goes on after a success
textQuery_return_fallsThrough(q, text) ==
  textQuery_continue([q EXCEPT !.returned = text,
                               !.history = Append(@, Succeeded(text))])

\* return text;
textQuery_return(q, text) ==
  ask_then([q EXCEPT !.callState = "Success", !.returned = text,
                     !.history = Append(@, Succeeded(text))], text)

\* the loop counted from 0
textQuery_fromZero(q) ==
  textQuery_try([q EXCEPT !.fn = "textQuery"], 0)

\* the function from its entry: for (let attempt = 1; ...
textQuery(q) ==
  textQuery_try([q EXCEPT !.fn = "textQuery"], 1)

\* app.post("/ask"): let result = await textQuery(question)
ask_handler(q) ==
  textQuery([q EXCEPT !.route = "/ask"])

----------------------------------------------------------------------------
(* POST /syllabus and syllabusGen.                                          *)

\* res.json({ result: result })
syllabus_then(q, result) == Respond(q, 200, "result", result, "")

\* the catch block of the /syllabus handler
syllabus_catch(q, error) ==
  Respond(Caught(q, error), 500, "error", <<>>,
          "I apologize, but I'm having trouble generating the syllabus right now. Please try again in a moment.")

syllabusGen_maxRetries == 3

syllabusGen_isOverload(error) ==
  error.status = 503 \/ (error.hasMessage /\ Includes(error.message, OVERLOADED))

syllabusGen_throw(q, error) ==
  syllabus_catch([q EXCEPT !.callState = "TerminalFailure", !.thrown = error],
                 error)

\* every failure retried, overload or not
syllabusGen_catch_retriesAll(q, error) ==
  LET q1 == [q EXCEPT !.lastError = error, !.history = Append(@, Failed(error))]
  IN IF q1.attempt < syllabusGen_maxRetries
     THEN Sleep(q1, q1.attempt * 2000)
     ELSE syllabusGen_throw(q1, error)

syllabusGen_catch(q, error) ==
  LET q1 == [q EXCEPT !.lastError = error, !.history = Append(@, Failed(error))]
  IN IF syllabusGen_isOverload(error) /\ q1.attempt < syllabusGen_maxRetries
     THEN Sleep(q1, q1.attempt * 2000)
     ELSE syllabusGen_throw(q1, error)

syllabusGen_try(q, attempt) ==
  LET q1 == [q EXCEPT !.attempt = attempt, !.callState = "Attempting",
                      !.starts = Append(@, now)]
  IN IF ENV.GEMINI_KEY
     THEN [q1 EXCEPT !.pc = "calling", !.extCalls = @ + 1]
     ELSE syllabusGen_catch(q1, NullGenAIError)

syllabusGen_continue(q) ==
  IF q.attempt + 1 <= syllabusGen_maxRetries
  THEN syllabusGen_try(q, q.attempt + 1)
  ELSE syllabusGen_throw(q, q.lastError)

\* return text;
syllabusGen_return(q, text) ==
  syllabus_then([q EXCEPT !.callState = "Success", !.returned = text,
                          !.history = Append(@, Succeeded(text))], text)

\* the function from its entry: for (let attempt = 1; ...
syllabusGen(q) ==
  syllabusGen_try([q EXCEPT !.fn = "syllabusGen"], 1)

\* app.post("/syllabus"): let result = await syllabusGen(std, subject)
syllabus_handler(q) ==
  syllabusGen([q EXCEPT !.route = "/syllabus"])

----------------------------------------------------------------------------
(* problemSolving: no route calls it; it is invoked directly and its result *)
(* stays with the invocation.                                               *)

\* one retry fewer than the other two loops
problemSolving_maxRetries_fewer == 3 - 1

problemSolving_maxRetries == 3

problemSolving_isOverload(error) ==
  error.status = 503 \/ (error.hasMessage /\ Includes(error.message, OVERLOADED))

problemSolving_throw(q, error) ==
  [q EXCEPT !.callState = "TerminalFailure", !.thrown = error, !.pc = "done"]

\* lastError keeps the first failure, and that one is thrown
problemSolving_catch_firstError(q, error) ==
  LET first == IF q.lastError = NoError THEN error ELSE q.lastError
      q1 == [q EXCEPT !.lastError = first, !.history = Append(@, Failed(error))]
  IN IF problemSolving_isOverload(error) /\ q1.attempt < problemSolving_maxRetries
     THEN Sleep(q1, q1.attempt * 2000)
     ELSE problemSolving_throw(q1, first)

problemSolving_catch(q, error) ==
  LET q1 == [q EXCEPT !.lastError = error, !.history = Append(@, Failed(error))]
  IN IF problemSolving_isOverload(error) /\ q1.attempt < problemSolving_maxRetries
     THEN Sleep(q1, q1.attempt * 2000)
     ELSE problemSolving_throw(q1, error)

\* the try block: getGenerativeModel, fileToGenerativePart("prob.jpg"), then
\* the await of generateContent; probJpg says whether prob.jpg can be read
problemSolving_try(q, attempt, probJpg) ==
  LET q1 == [q EXCEPT !.attempt = attempt, !.callState = "Attempting",
                      !.starts = Append(@, now)]
  IN IF ~ENV.GEMINI_KEY THEN problemSolving_catch(q1, NullGenAIError)
     ELSE IF ~probJpg THEN problemSolving_catch(q1, FileNotFoundError)
     ELSE [q1 EXCEPT !.pc = "calling", !.extCalls = @ + 1]

problemSolving_continue(q, probJpg) ==
  IF q.attempt + 1 <= problemSolving_maxRetries
  THEN problemSolving_try(q, q.attempt + 1, probJpg)
  ELSE problemSolving_throw(q, q.lastError)

\* return text;
problemSolving_return(q, text) ==
  [q EXCEPT !.callState = "Success", !.returned = text,
            !.history = Append(@, Succeeded(text)), !.pc = "done"]

\* the function from its entry: for (let attempt = 1; ...
problemSolving(q, probJpg) ==
  problemSolving_try([q EXCEPT !.fn = "problemSolving"], 1, probJpg)

problemSolving_invoke(q, probJpg) ==
  problemSolving([q EXCEPT !.route = "problemSolving()"], probJpg)

----------------------------------------------------------------------------
(* Handlers that call model.generateContent themselves, once.               *)

\* const result = await model.generateContent(prompt), reached in a handler
CallOnce(q) ==
  [q EXCEPT !.pc = "calling", !.extCalls = @ + 1, !.callState = "Attempting",
            !.starts = Append(@, now)]

\* the call returned text
CallReturned(q, text) ==
  [q EXCEPT !.callState = "Success", !.returned = text,
            !.history = Append(@, Succeeded(text))]

\* the call (or getGenerativeModel on a null genAI) threw
CallThrew(q, error) ==
  [q EXCEPT !.callState = "TerminalFailure", !.thrown = error,
            !.history = Append(@, Failed(error))]

(* POST /essay-writer *)

essayWriter_then(q, text) == Respond(q, 200, "result", text, "")

essayWriter_catch(q, error) ==
  Respond(Caught(q, error), 500, "error", <<>>,
          "I apologize, but I'm having trouble generating the essay right now. Please try again in a moment.")

essayWriter_handler(q) ==
  LET q1 == [q EXCEPT !.route = "/essay-writer", !.fn = "generateContent"]
  IN IF ENV.GEMINI_KEY THEN CallOnce(q1) ELSE essayWriter_catch(q1, NullGenAIError)

(* POST /code-explainer *)

codeExplainer_then(q, text) == Respond(q, 200, "result", text, "")

codeExplainer_catch(q, error) ==
  Respond(Caught(q, error), 500, "error", <<>>,
          "I apologize, but I'm having trouble explaining the code right now. Please try again in a moment.")

codeExplainer_handler(q) ==
  LET q1 == [q EXCEPT !.route = "/code-explainer", !.fn = "generateContent"]
  IN IF ENV.GEMINI_KEY THEN CallOnce(q1) ELSE codeExplainer_catch(q1, NullGenAIError)

(* POST /study-planner *)

studyPlanner_then(q, text) == Respond(q, 200, "result", text, "")

studyPlanner_catch(q, error) ==
  Respond(Caught(q, error), 500, "error", <<>>,
          "I apologize, but I'm having trouble creating the study plan right now. Please try again in a moment.")

studyPlanner_handler(q) ==
  LET q1 == [q EXCEPT !.route = "/study-planner", !.fn = "generateContent"]
  IN IF ENV.GEMINI_KEY THEN CallOnce(q1) ELSE studyPlanner_catch(q1, NullGenAIError)

(* POST /flashcard-generator *)

flashcardGenerator_then(q, text) == Respond(q, 200, "result", text, "")

flashcardGenerator_catch(q, error) ==
  Respond(Caught(q, error), 500, "error", <<>>,
          "I apologize, but I'm having trouble generating flashcards right now. Please try again in a moment.")

flashcardGenerator_handler(q) ==
  LET q1 == [q EXCEPT !.route = "/flashcard-generator", !.fn = "generateContent"]
  IN IF ENV.GEMINI_KEY THEN CallOnce(q1) ELSE flashcardGenerator_catch(q1, NullGenAIError)

(* POST /chat *)

chat_isOverload(error) ==
  error.status = 503 \/ (error.hasMessage /\ Includes(error.message, OVERLOADED))

chat_then(q, text) == Respond(q, 200, "message", text, "")

chat_catch(q, error) ==
  IF chat_isOverload(error)
  THEN Respond(Caught(q, error), 503, "message", <<>>,
               "The AI service is currently experiencing high traffic. Please try again in a few minutes.")
  ELSE Respond(Caught(q, error), 500, "message", <<>>,
               "I apologize, but I'm having trouble processing your request right now. Please try again in a moment.")

chat_handler(q) ==
  LET q1 == [q EXCEPT !.route = "/chat", !.fn = "generateContent"]
  IN IF ENV.GEMINI_KEY THEN CallOnce(q1) ELSE chat_catch(q1, NullGenAIError)

(* POST /form *)

UploadNames == { <<"a",".","j","p","g">>, OVERLOADED \o <<".","j","p","g">> }

\* errors of fs.readFileSync(req.file.path); the path ends in the original name
FsError(code, originalname) ==
  MkError("Error", NoStatus, TRUE,
          code \o <<":"," ","o","p","e","n"," ","'","u","p","l","o","a","d","s","/",
                    "1","-","2","-">> \o originalname \o <<"'">>,
          code)

ENOENT == <<"E","N","O","E","N","T">>
EACCES == <<"E","A","C","C","E","S">>
EROFS == <<"E","R","O","F","S">>

form_isOverload(error) ==
  error.status = 503 \/ (error.hasMessage /\ Includes(error.message, OVERLOADED))

\* if (!ENV.IS_VERCEL && req.file && req.file.path && fs.existsSync(...)) unlinkSync
form_cleanup(q) ==
  IF ~ENV.IS_VERCEL /\ q.file /\ q.onDisk THEN [q EXCEPT !.onDisk = FALSE] ELSE q

form_then(q, text) == Respond(form_cleanup(q), 200, "result", text, "")

\* the outer catch block
form_catch(q, error) ==
  LET q1 == form_cleanup(Caught(q, error))
  IN IF form_isOverload(error)
     THEN Respond(q1, 503, "error", <<>>,
                  "The AI service is currently experiencing high traffic. Please try again in a few minutes.")
     ELSE IF error.code = EROFS \/ error.code = ENOENT
     THEN Respond(q1, 500, "error", <<>>,
                  "File system error. We're using Cloudinary for uploads now.")
     ELSE Respond(q1, 500, "error", <<>>,
                  "An error occurred while processing your image. Please try again.")

\* catch (cloudinaryError)
form_cloudinaryCatch(q) ==
  Respond(q, 500, "error", <<>>, "Failed to upload image")

\* from getGenerativeModel to the await of generateContent
form_generate(q) ==
  IF ENV.GEMINI_KEY THEN CallOnce(q) ELSE form_catch(q, NullGenAIError)

\* the `if (!req.file)` guard left out
form_handler_noGuard(q, file, originalname, read) ==
  LET q1 == [q EXCEPT !.route = "/form", !.fn = "generateContent",
                      !.file = file, !.originalname = originalname,
                      !.onDisk = file /\ ~ENV.IS_VERCEL /\ read # ENOENT]
  IN IF ENV.IS_VERCEL THEN [q1 EXCEPT !.pc = "uploading", !.uploads = @ + 1]
     ELSE IF read # <<>> THEN form_catch(q1, FsError(read, originalname))
     ELSE form_generate(q1)

\* the handler up to its first await; read is the outcome of readFileSync
form_handler(q, file, originalname, read) ==
  LET q1 == [q EXCEPT !.route = "/form", !.fn = "generateContent",
                      !.file = file, !.originalname = originalname,
                      !.onDisk = file /\ ~ENV.IS_VERCEL /\ read # ENOENT]
  IN IF ~file THEN Respond(q1, 400, "error", <<>>, "No image file uploaded")
     ELSE IF ENV.IS_VERCEL THEN [q1 EXCEPT !.pc = "uploading", !.uploads = @ + 1]
     ELSE IF read # <<>> THEN form_catch(q1, FsError(read, originalname))
     ELSE form_generate(q1)

\* the upload_stream callback
form_uploaded(q, ok) ==
  IF ok THEN [q EXCEPT !.pc = "downloading", !.inCloud = TRUE]
  ELSE form_cloudinaryCatch(q)

\* axios.get(cloudinaryUrl) settled
form_downloaded(q, ok) ==
  IF ok THEN form_generate(q) ELSE form_cloudinaryCatch(q)

----------------------------------------------------------------------------
(* JSON.parse on a text given as a sequence of characters.  A value is a    *)
(* record [t, v]: an object holds its members <<key, value>> in insertion   *)
(* order, an array its items, a string its characters, a number and a       *)
(* literal their lexeme.  (\u escapes are not among the texts of the model.) *)

JsonWs == {" ", "\n", "\t", "\r"}
JsonDigits == {"0","1","2","3","4","5","6","7","8","9"}
JsonEscapes == {"\"", "\\", "/", "b", "f", "n", "r", "t"}

JsonFail == [ok |-> FALSE, v |-> [t |-> "undefined", v |-> <<>>], next |-> 0]
JsonOk(t, v, next) == [ok |-> TRUE, v |-> [t |-> t, v |-> v], next |-> next]

\* index of the first character at or after i that is not whitespace
SkipWs(s, i) ==
  LET js == { j \in i..(Len(s) + 1) : j = Len(s) + 1 \/ s[j] \notin JsonWs }
  IN CHOOSE j \in js : \A k \in js : j <= k

\* index after the run of digits that starts at i (i itself when there is none)
SkipDigits(s, i) ==
  LET js == { j \in i..(Len(s) + 1) : j = Len(s) + 1 \/ s[j] \notin JsonDigits }
  IN CHOOSE j \in js : \A k \in js : j <= k

At(s, i) == IF i >= 1 /\ i <= Len(s) THEN s[i] ELSE ""

HasAt(s, i, lit) ==
  i + Len(lit) - 1 <= Len(s) /\ SubSeq(s, i, i + Len(lit) - 1) = lit

Unescape(c) ==
  CASE c = "n" -> "\n" [] c = "t" -> "\t" [] c = "r" -> "\r"
    [] c = "b" -> "\\b" [] c = "f" -> "\\f" [] OTHER -> c

\* the characters of a string literal whose opening quote is before i
RECURSIVE ParseChars(_, _, _)
ParseChars(s, i, acc) ==
  IF i > Len(s) THEN JsonFail
  ELSE IF s[i] = "\"" THEN JsonOk("string", acc, i + 1)
  ELSE IF s[i] \in {"\n", "\t", "\r"} THEN JsonFail
  ELSE IF s[i] = "\\"
       THEN IF At(s, i + 1) \in JsonEscapes
            THEN ParseChars(s, i + 2, Append(acc, Unescape(s[i + 1])))
            ELSE JsonFail
  ELSE ParseChars(s, i + 1, Append(acc, s[i]))

ParseString(s, i) ==
  IF At(s, i) = "\"" THEN ParseChars(s, i + 1, <<>>) ELSE JsonFail

\* -? (0 | [1-9][0-9]*) (. [0-9]+)? ([eE] [+-]? [0-9]+)?
ParseNumber(s, i) ==
  LET i1 == IF At(s, i) = "-" THEN i + 1 ELSE i
      i2 == IF At(s, i1) = "0" THEN i1 + 1 ELSE SkipDigits(s, i1)
      f == IF At(s, i2) = "." THEN SkipDigits(s, i2 + 1) ELSE i2
      fracOk == At(s, i2) # "." \/ f > i2 + 1
      e1 == IF At(s, f) \in {"e", "E"}
            THEN (IF At(s, f + 1) \in {"+", "-"} THEN f + 2 ELSE f + 1)
            ELSE f
      e2 == IF At(s, f) \in {"e", "E"} THEN SkipDigits(s, e1) ELSE f
      expOk == At(s, f) \notin {"e", "E"} \/ e2 > e1
  IN IF i2 > i1 /\ fracOk /\ expOk
     THEN JsonOk("number", SubSeq(s, i, e2 - 1), e2)
     ELSE JsonFail

\* members with a repeated key keep the first position and the last value
PutMember(ms, k, v) ==
  IF \E n \in 1..Len(ms) : ms[n][1] = k
  THEN [n \in 1..Len(ms) |-> IF ms[n][1] = k THEN <<k, v>> ELSE ms[n]]
  ELSE Append(ms, <<k, v>>)

RECURSIVE ParseValue(_, _), ParseElements(_, _, _), ParseMembers(_, _, _)

ParseValue(s, i0) ==
  LET i == SkipWs(s, i0)
      c == At(s, i)
  IN IF c = "{"
     THEN (IF At(s, SkipWs(s, i + 1)) = "}"
           THEN JsonOk("object", <<>>, SkipWs(s, i + 1) + 1)
           ELSE ParseMembers(s, i + 1, <<>>))
     ELSE IF c = "["
     THEN (IF At(s, SkipWs(s, i + 1)) = "]"
           THEN JsonOk("array", <<>>, SkipWs(s, i + 1) + 1)
           ELSE ParseElements(s, i + 1, <<>>))
     ELSE IF c = "\"" THEN ParseString(s, i)
     ELSE IF c = "-" \/ c \in JsonDigits THEN ParseNumber(s, i)
     ELSE IF HasAt(s, i, <<"t","r","u","e">>)
     THEN JsonOk("literal", <<"t","r","u","e">>, i + 4)
     ELSE IF HasAt(s, i, <<"f","a","l","s","e">>)
     THEN JsonOk("literal", <<"f","a","l","s","e">>, i + 5)
     ELSE IF HasAt(s, i, <<"n","u","l","l">>)
     THEN JsonOk("literal", <<"n","u","l","l">>, i + 4)
     ELSE JsonFail

\* value (, value)* ]
ParseElements(s, i, acc) ==
  LET r == ParseValue(s, i)
      j == IF r.ok THEN SkipWs(s, r.next) ELSE 0
  IN IF ~r.ok THEN JsonFail
     ELSE IF At(s, j) = "," THEN ParseElements(s, j + 1, Append(acc, r.v))
     ELSE IF At(s, j) = "]" THEN JsonOk("array", Append(acc, r.v), j + 1)
     ELSE JsonFail

\* string : value (, string : value)* }
ParseMembers(s, i, acc) ==
  LET k == ParseString(s, SkipWs(s, i))
      c == IF k.ok THEN SkipWs(s, k.next) ELSE 0
      r == IF k.ok /\ At(s, c) = ":" THEN ParseValue(s, c + 1) ELSE JsonFail
      j == IF r.ok THEN SkipWs(s, r.next) ELSE 0
  IN IF ~r.ok THEN JsonFail
     ELSE IF At(s, j) = "," THEN ParseMembers(s, j + 1, PutMember(acc, k.v.v, r.v))
     ELSE IF At(s, j) = "}" THEN JsonOk("object", PutMember(acc, k.v.v, r.v), j + 1)
     ELSE JsonFail

\* JSON.parse(text): ok is FALSE where it throws a SyntaxError
JSONparse(s) ==
  LET r == ParseValue(s, 1)
  IN IF r.ok /\ SkipWs(s, r.next) = Len(s) + 1 THEN r ELSE JsonFail

\* a lazy quantifier: from the first "{" to the first "}" after it
JsonMatch_lazy(s) ==
  LET opens == { i \in 1..Len(s) : s[i] = "{" }
      first == CHOOSE i \in opens : \A k \in opens : i <= k
      closes == { i \in 1..Len(s) : s[i] = "}" /\ i > first }
      last == CHOOSE i \in closes : \A k \in closes : i <= k
  IN IF opens # {} /\ closes # {}
     THEN [found |-> TRUE, match |-> SubSeq(s, first, last)]
     ELSE [found |-> FALSE, match |-> <<>>]

\* text.match(/\{[\s\S]*\}/): from the first "{" to the last "}" after it
JsonMatch(s) ==
  LET opens == { i \in 1..Len(s) : s[i] = "{" }
      closes == { i \in 1..Len(s) : s[i] = "}" }
      first == CHOOSE i \in opens : \A k \in opens : i <= k
      last == CHOOSE i \in closes : \A k \in closes : i >= k
  IN IF opens # {} /\ closes # {} /\ first < last
     THEN [found |-> TRUE, match |-> SubSeq(s, first, last)]
     ELSE [found |-> FALSE, match |-> <<>>]

----------------------------------------------------------------------------
(* Number arithmetic of the scoring: IEEE 754 binary64 with round to        *)
(* nearest, ties to even.  A positive double is [bits, exp]: 53 bits, most  *)
(* significant first and leading bit 1, read as an integer times 2^exp.     *)

MantissaBits == 53

Reverse(s) == [i \in 1..Len(s) |-> s[Len(s) + 1 - i]]

\* the binary digits of a positive integer, most significant first
RECURSIVE IntBits(_)
IntBits(n) == IF n = 0 THEN <<>> ELSE Append(IntBits(n \div 2), n % 2)

RECURSIVE BitsInt(_)
BitsInt(b) == IF b = <<>> THEN 0 ELSE 2 * BitsInt(SubSeq(b, 1, Len(b) - 1)) + b[Len(b)]

\* the next n binary digits of r / d (0 <= r < d), and the remainder after them
RECURSIVE FracBits(_, _, _, _)
FracBits(r, d, n, acc) ==
  IF n = 0 THEN [bits |-> acc, rem |-> r]
  ELSE FracBits((2 * r) % d, d, n - 1, Append(acc, (2 * r) \div d))

\* b + 1 on binary digits, most significant first (one digit longer on overflow)
RECURSIVE Increment(_)
Increment(b) ==
  IF b = <<>> THEN <<1>>
  ELSE IF b[Len(b)] = 0 THEN SubSeq(b, 1, Len(b) - 1) \o <<1>>
  ELSE Increment(SubSeq(b, 1, Len(b) - 1)) \o <<0>>

\* b * k for a small k, on binary digits given least significant first
RECURSIVE TimesLsb(_, _, _)
TimesLsb(b, k, carry) ==
  IF b = <<>> THEN Reverse(IntBits(carry))
  ELSE <<(b[1] * k + carry) % 2>>
       \o TimesLsb(Tail(b), k, (b[1] * k + carry) \div 2)

\* round the digits b (leading digit 1, at least 53 of them) followed by a
\* nonzero tail iff sticky, scaled by 2^exp, to a double
RoundToDouble(b, sticky, exp) ==
  LET keep == SubSeq(b, 1, MantissaBits)
      rest == SubSeq(b, MantissaBits + 1, Len(b))
      guard == IF rest = <<>> THEN 0 ELSE rest[1]
      more == sticky \/ \E i \in 2..Len(rest) : rest[i] = 1
      up == guard = 1 /\ (more \/ keep[MantissaBits] = 1)
      m == IF up THEN Increment(keep) ELSE keep
      e == exp + Len(rest)
  IN IF Len(m) > MantissaBits
     THEN [bits |-> SubSeq(m, 1, MantissaBits), exp |-> e + 1]
     ELSE [bits |-> m, exp |-> e]

\* a / b for integers 0 < a, 0 < b
FloatDiv(a, b) ==
  LET int == IntBits(a \div b)
      \* enough digits after the point for 53 significant ones and a guard
      lead == CHOOSE z \in 0..31 : a * (2 ^ z) >= b /\ (z = 0 \/ a * (2 ^ (z - 1)) < b)
      n == MantissaBits + 1 + lead
      frac == FracBits(a % b, b, n, <<>>)
      all == int \o frac.bits
      first == CHOOSE i \in 1..Len(all) : all[i] = 1 /\ \A k \in 1..(i - 1) : all[k] = 0
  IN RoundToDouble(SubSeq(all, first, Len(all)), frac.rem # 0, -n)

\* x * k for a double x and a small positive integer k
FloatTimes(x, k) ==
  RoundToDouble(Reverse(TimesLsb(Reverse(x.bits), k, 0)), FALSE, x.exp)

\* Math.round(x) for a double 0 < x < 2^52: ties go up
MathRound(x) ==
  LET intLen == MantissaBits + x.exp
  IN IF intLen < 0 THEN 0
     ELSE BitsInt(SubSeq(x.bits, 1, intLen)) + x.bits[intLen + 1]

\* an empty answer array scored as 0 instead of NaN
ScoreOf_emptyIsZero(correctAnswers, length) ==
  IF length = 0 \/ correctAnswers = 0 THEN [nan |-> FALSE, n |-> 0]
  ELSE [nan |-> FALSE,
        n |-> MathRound(FloatTimes(FloatDiv(correctAnswers, length), 100))]

\* Math.round((correctAnswers / length) * 100); nan where the result is NaN
ScoreOf(correctAnswers, length) ==
  IF length = 0 THEN [nan |-> TRUE, n |-> 0]
  ELSE IF correctAnswers = 0 THEN [nan |-> FALSE, n |-> 0]
  ELSE [nan |-> FALSE,
        n |-> MathRound(FloatTimes(FloatDiv(correctAnswers, length), 100))]

----------------------------------------------------------------------------
(* POST /quiz-generator *)

\* res.json({ quiz, topic, difficulty, type, count })
quizGenerator_json(q, quiz) ==
  RespondData(q, "quiz",
              [quiz |-> quiz, topic |-> q.body.topic,
               difficulty |-> q.body.difficulty, type |-> q.body.type,
               count |-> q.body.count])

\* the salvage tried before the strict parse
quizGenerator_then_salvageFirst(q, text) ==
  LET strict == JSONparse(text)
      jsonMatch == JsonMatch(text)
      extracted == JSONparse(jsonMatch.match)
  IN IF jsonMatch.found /\ extracted.ok THEN quizGenerator_json(q, extracted.v)
     ELSE IF strict.ok THEN quizGenerator_json(q, strict.v)
     ELSE Respond(q, 500, "error", <<>>,
                  "Failed to generate structured quiz. Please try again with a different topic.")

\* from JSON.parse(text) to the response
quizGenerator_then(q, text) ==
  LET strict == JSONparse(text)
      jsonMatch == JsonMatch(text)
      extracted == JSONparse(jsonMatch.match)
  IN IF strict.ok THEN quizGenerator_json(q, strict.v)
     ELSE IF jsonMatch.found /\ extracted.ok THEN quizGenerator_json(q, extracted.v)
     ELSE Respond(q, 500, "error", <<>>,
                  "Failed to generate structured quiz. Please try again with a different topic.")

\* the outer catch block
quizGenerator_catch(q, error) ==
  Respond(Caught(q, error), 500, "error", <<>>, "Failed to generate quiz. Please try again.")

quizGenerator_handler(q, body) ==
  LET q1 == [q EXCEPT !.route = "/quiz-generator", !.fn = "generateContent",
                      !.body = body]
  IN IF ENV.GEMINI_KEY THEN CallOnce(q1)
     ELSE quizGenerator_catch(q1, NullGenAIError)

----------------------------------------------------------------------------
(* POST /submit-quiz *)

HexDigits == <<"0","1","2","3","4","5","6","7","8","9","a","b","c","d","e","f">>
HexDigitsUpper == <<"0","1","2","3","4","5","6","7","8","9","A","B","C","D","E","F">>

DigitValue(c, radix) ==
  IF \E d \in 1..radix : HexDigits[d] = c \/ HexDigitsUpper[d] = c
  THEN (CHOOSE d \in 1..radix : HexDigits[d] = c \/ HexDigitsUpper[d] = c) - 1
  ELSE -1

RECURSIVE ParseDigits(_, _, _, _)
ParseDigits(s, i, radix, acc) ==
  IF i > Len(s) \/ DigitValue(s[i], radix) < 0 THEN acc
  ELSE ParseDigits(s, i + 1, radix, acc * radix + DigitValue(s[i], radix))

\* parseInt(s): leading whitespace, a sign, 0x for radix 16, then the digits
\* up to the first character that is none; NaN when there is no digit
ParseInt(s) ==
  LET i == SkipWs(s, 1)
      neg == At(s, i) = "-"
      j == IF At(s, i) \in {"+", "-"} THEN i + 1 ELSE i
      hex == At(s, j) = "0" /\ At(s, j + 1) \in {"x", "X"}
      k == IF hex THEN j + 2 ELSE j
      radix == IF hex THEN 16 ELSE 10
      n == ParseDigits(s, k, radix, 0)
  IN IF DigitValue(At(s, k), radix) < 0 THEN [nan |-> TRUE, n |-> 0]
     ELSE [nan |-> FALSE, n |-> IF neg THEN -n ELSE n]

\* the scoring loop: the entries pushed to userAnswers
UserAnswers(answers) ==
  [i \in 1..Len(answers) |->
     [questionNumber |-> i,
      userAnswer |-> answers[i].userAnswer,
      correctAnswer |-> answers[i].correctAnswer,
      isCorrect |-> answers[i].userAnswer = answers[i].correctAnswer]]

\* the scoring loop: the final value of correctAnswers
CorrectAnswers(answers) ==
  Cardinality({ i \in 1..Len(answers) :
                  answers[i].userAnswer = answers[i].correctAnswer })

\* new QuizResult({...}); valid says whether the schema accepts the document
\* (required paths present, no Number path cast from NaN)
submitQuiz_doc(user, body) ==
  LET score == ScoreOf(CorrectAnswers(body.answers), Len(body.answers))
      total == ParseInt(body.count)
      time == ParseInt(body.timeTaken)
  IN [valid |-> /\ body.topic # "" /\ body.difficulty # "" /\ body.type # ""
                /\ ~total.nan /\ ~score.nan /\ ~time.nan,
      user |-> user, topic |-> body.topic, difficulty |-> body.difficulty,
      questionType |-> body.type, totalQuestions |-> total.n,
      correctAnswers |-> CorrectAnswers(body.answers), score |-> score.n,
      userAnswers |-> UserAnswers(body.answers), timeTaken |-> time.n,
      completedAt |-> now]

\* the catch block
submitQuiz_catch(q) ==
  Respond(q, 500, "error", <<>>, "Failed to submit quiz. Please try again.")

\* res.json({ success: true, score, correctAnswers, totalQuestions, userAnswers })
submitQuiz_then(q) ==
  RespondData(q, "success",
              [success |-> TRUE, score |-> q.doc.score,
               correctAnswers |-> q.doc.correctAnswers,
               totalQuestions |-> Len(q.body.answers),
               userAnswers |-> q.doc.userAnswers])

\* the handler up to the await of quizResult.save()
submitQuiz_handler(q, user, body) ==
  LET q1 == [q EXCEPT !.route = "/submit-quiz", !.user = user, !.body = body]
  IN IF user = NoUser \/ ~body.hasAnswers THEN submitQuiz_catch(q1)
     ELSE [q1 EXCEPT !.pc = "saving", !.doc = submitQuiz_doc(user, body)]

\* the success response sent whatever save() did
submitQuiz_saved_optimistic(q, written) ==
  submitQuiz_then(q)

\* quizResult.save() settled; written says whether the store took the record
submitQuiz_saved(q, written) ==
  IF written THEN submitQuiz_then(q) ELSE submitQuiz_catch(q)

----------------------------------------------------------------------------
(* GET /quiz-history *)

HistoryLimit == 10

\* the sequences that enumerate the set S, each element once
RECURSIVE Orderings(_)
Orderings(S) ==
  IF S = {} THEN {<<>>}
  ELSE UNION { { <<i>> \o p : p \in Orderings(S \ {i}) } : i \in S }

\* distinct on the inputs: of the user's records with one topic, one is listed
quizHistory_find_distinct(user) ==
  { i \in 1..Len(store) :
      /\ store[i].doc.user = user
      /\ \A k \in 1..Len(store) :
           (store[k].doc.user = user /\ store[k].doc.topic = store[i].doc.topic)
             => k <= i }

\* no filter on the user
quizHistory_find_all(user) ==
  1..Len(store)

\* find({ user }): the positions in the store of the user's records
quizHistory_find(user) ==
  { i \in 1..Len(store) : store[i].doc.user = user }

\* sort({ completedAt: -1 }): latest first; records completed at the same
\* time come in any order
RECURSIVE quizHistory_sort(_)
quizHistory_sort(S) ==
  IF S = {} THEN {<<>>}
  ELSE LET latest == { i \in S : \A k \in S :
                         store[i].doc.completedAt >= store[k].doc.completedAt }
       IN UNION { { p \o s : s \in quizHistory_sort(S \ latest) } :
                    p \in Orderings(latest) }

\* limit(10)
quizHistory_limit(s) ==
  SubSeq(s, 1, IF Len(s) < HistoryLimit THEN Len(s) ELSE HistoryLimit)

\* the limit applied to the stored order, before the sort
quizHistory_query_limitFirst(user) ==
  LET mine == quizHistory_find(user)
      first == { i \in mine : Cardinality({ k \in mine : k < i }) < HistoryLimit }
  IN { [k \in 1..Len(s) |-> store[s[k]]] : s \in quizHistory_sort(first) }

\* the results the query can resolve with
quizHistory_query(user) ==
  { LET t == quizHistory_limit(s) IN [k \in 1..Len(t) |-> store[t[k]]] :
      s \in quizHistory_sort(quizHistory_find(user)) }

\* res.json({ quizResults })
quizHistory_then(q, quizResults) ==
  RespondData(q, "quizResults", [quizResults |-> quizResults])

\* the catch block
quizHistory_catch(q) ==
  Respond(q, 500, "error", <<>>, "Failed to fetch quiz history.")

\* the handler up to the await of the query
quizHistory_handler(q, user) ==
  LET q1 == [q EXCEPT !.route = "/quiz-history", !.user = user]
  IN IF user = NoUser THEN quizHistory_catch(q1)
     ELSE [q1 EXCEPT !.pc = "finding"]

\* the query settled; found says whether it resolved
quizHistory_found(q, found, quizResults) ==
  IF found THEN quizHistory_then(q, quizResults) ELSE quizHistory_catch(q)

----------------------------------------------------------------------------

(* Inputs of the model.                                                     *)

Users == {"u1", "u2"}

QuizBodies ==
  { [NoBody EXCEPT !.topic = "t", !.difficulty = d, !.type = "MCQ",
                   !.count = <<"1">>] : d \in {"easy", "hard"} }

\* texts the generation service can answer a quiz prompt with
\* {"questions":[]}
QuizStrict ==
  <<"{","\"","q","u","e","s","t","i","o","n","s","\"",":","[",
    "]","}">>

\* Here is your quiz: {"questions":[]} Thanks!
QuizWrapped ==
  <<"H","e","r","e"," ","i","s"," ","y","o","u","r"," ","q",
    "u","i","z",":"," ","{","\"","q","u","e","s","t","i","o",
    "n","s","\"",":","[","]","}"," ","T","h","a","n","k","s",
    "!">>

\* Quiz:\n{"q":[1]}\n
QuizMultiline ==
  <<"Q","u","i","z",":","\n","{","\"","q","\"",":","[",
    "1","]","}","\n">>

\* x{"a":{"b":1}}y
QuizNested ==
  <<"x","{","\"","a","\"",":","{","\"","b","\"",":","1","}","}",
    "y">>

\* [{}]
QuizArray ==
  <<"[","{","}","]">>

\* "{}"
QuizString ==
  <<"\"","{","}","\"">>

\* no json
QuizProse ==
  <<"n","o"," ","j","s","o","n">>

\* {"a":1} and {"b":2}
QuizTwoObjects ==
  <<"{","\"","a","\"",":","1","}"," ","a","n","d"," ","{","\"",
    "b","\"",":","2","}">>

\* }{
QuizReversed ==
  <<"}","{">>

\* {"a":1
QuizUnclosed ==
  <<"{","\"","a","\"",":","1">>

QuizTexts ==
  {QuizStrict, QuizWrapped, QuizMultiline, QuizNested, QuizArray, QuizString,
   QuizProse, QuizTwoObjects, QuizReversed, QuizUnclosed}

AnswerPairs ==
  { [userAnswer |-> u, correctAnswer |-> c] : u \in {"A", "a"}, c \in {"A", "B"} }

\* an answer array of n pairs of which the first c match
PrefixAnswers(n, c) ==
  [i \in 1..n |-> [userAnswer |-> IF i <= c THEN "A" ELSE "B",
                   correctAnswer |-> "A"]]

SmallAnswers ==
  {<<>>} \cup { <<a>> : a \in AnswerPairs }
         \cup { <<a, b>> : a \in AnswerPairs, b \in AnswerPairs }

LongAnswers ==
  UNION { { PrefixAnswers(n, c) : c \in 0..n } : n \in 1..MaxAnswers }

SubmitBody(topic, count, hasAnswers, answers, timeTaken) ==
  [topic |-> topic, difficulty |-> "easy", type |-> "MCQ", count |-> count,
   hasAnswers |-> hasAnswers, answers |-> answers, timeTaken |-> timeTaken]

SmallBodies ==
  { SubmitBody(t, c, TRUE, a, d) :
      t \in {"", "t"}, c \in {<<>>, <<"1">>, <<"2">>}, a \in SmallAnswers,
      d \in {<<>>, <<"9">>} }
  \cup { SubmitBody("t", <<"1">>, FALSE, <<>>, <<"9">>) }

\* the body of the repeated submissions: one question, answered right
TinyBody ==
  SubmitBody("t", <<"1">>, TRUE, <<[userAnswer |-> "A", correctAnswer |-> "A"]>>,
             <<"9">>)

\* String(n) for an integer n >= 0
RECURSIVE Decimal(_)
Decimal(n) ==
  IF n < 10 THEN <<HexDigits[n + 1]>>
  ELSE Append(Decimal(n \div 10), HexDigits[(n % 10) + 1])

\* bodies whose count field is the number of answers, as the quiz page sends
LongBodies ==
  { SubmitBody("t", Decimal(Len(a)), TRUE, a, <<"9">>) : a \in LongAnswers }

----------------------------------------------------------------------------
(* The database connection: connectToDatabase and the dbStatus setting.     *)

ReconnectMs == 5000    \* setTimeout(() => connectToDatabase(), 5000)

NoApp ==
  [dbStatus |-> FALSE,     \* app.set("dbStatus", false) at start-up
   run |-> "none",         \* where the latest connectToDatabase run stands
   runs |-> 0,             \* runs of connectToDatabase begun so far
   pending |-> 0,          \* reconnect timers set and not yet fired
   retryAt |-> 0]          \* due time of the latest reconnect timer

connectToDatabase_catch_anywhere(a, env, t) ==
  LET failed == [a EXCEPT !.dbStatus = FALSE, !.run = "failed"]
  IN  IF env.IS_VERCEL
      THEN [failed EXCEPT !.pending = @ + 1, !.retryAt = t + ReconnectMs]
      ELSE failed

\* The catch block of connectToDatabase, entered at time t.
connectToDatabase_catch(a, env, t) ==
  LET failed == [a EXCEPT !.dbStatus = FALSE, !.run = "failed"]
  IN  IF env.NODE_ENV # "production" THEN failed
      ELSE IF env.IS_VERCEL
           THEN [failed EXCEPT !.pending = @ + 1, !.retryAt = t + ReconnectMs]
           ELSE failed

\* A call of connectToDatabase at time t, up to its first await: without a
\* database URL it throws at once, otherwise it awaits mongoose.connect.
connectToDatabase(a, env, t) ==
  LET begun == [a EXCEPT !.runs = @ + 1, !.run = "connecting"]
  IN  IF ~env.DB_URL THEN connectToDatabase_catch(begun, env, t) ELSE begun

\* mongoose.connect resolved: dbStatus is set, listCollections is awaited.
connectToDatabase_connected(a) ==
  [a EXCEPT !.dbStatus = TRUE, !.run = "listing"]

\* listCollections resolved: the run returns true.
connectToDatabase_return(a) == [a EXCEPT !.run = "connected"]

----------------------------------------------------------------------------
(* The session, the isLoggedIn gate and the pages behind it.                *)

NoSession ==
  [user |-> NoUser,        \* req.session.user
   passport |-> NoUser,    \* req.session.passport.user, set by req.login
   redirectUrl |-> "",     \* req.session.redirectUrl
   flash |-> {}]           \* flash messages waiting for the next request

Redirect(q, location) ==
  [q EXCEPT !.response = [status |-> 302, key |-> "location", text |-> <<>>,
                          error |-> "",
                          data |-> [success |-> FALSE, to |-> location]],
            !.responses = @ + 1,
            !.pc = "done"]

Render(q, view) ==
  [q EXCEPT !.response = [status |-> 200, key |-> "view", text |-> <<>>,
                          error |-> "",
                          data |-> [success |-> TRUE, view |-> view]],
            !.responses = @ + 1,
            !.pc = "done"]

\* What runs before every route: passport.session() restores the login kept
\* in the session, and the locals middleware reads (and so clears) the flash.
Arrives(route, s) ==
  [req |-> [IdleReq EXCEPT !.route = route, !.user = s.passport,
                           !.isAuthenticated = s.passport # NoUser],
   session |-> [s EXCEPT !.flash = {}]]

isLoggedIn_authFirst(q, s) ==
  IF ~q.isAuthenticated /\ ~(ENV.NODE_ENV # "production" /\ ENV.BYPASS_AUTH)
  THEN [req |-> Redirect(q, "/login"),
        session |-> [s EXCEPT
          !.redirectUrl = q.route,
          !.flash = @ \cup {"You must be logged in to access this page"}]]
  ELSE IF \/ ENV.MAINTENANCE_MODE
          \/ app.dbStatus = FALSE /\ ENV.NODE_ENV = "production"
  THEN [req |-> Redirect(q, "/_debug"), session |-> s]
  ELSE [req |-> [q EXCEPT !.nexts = @ + 1], session |-> s]

isLoggedIn(q, s) ==
  IF \/ ENV.MAINTENANCE_MODE
     \/ app.dbStatus = FALSE /\ ENV.NODE_ENV = "production"
  THEN [req |-> Redirect(q, "/_debug"), session |-> s]
  ELSE IF ENV.NODE_ENV # "production" /\ ENV.BYPASS_AUTH
  THEN [req |-> [q EXCEPT !.nexts = @ + 1], session |-> s]
  ELSE IF ~q.isAuthenticated
  THEN [req |-> Redirect(q, "/login"),
        session |-> [s EXCEPT
          !.redirectUrl = q.route,
          !.flash = @ \cup {"You must be logged in to access this page"}]]
  ELSE [req |-> [q EXCEPT !.nexts = @ + 1], session |-> s]

\* app.get("/index", isLoggedIn, handler)
index_handler(q, s) ==
  LET gate == isLoggedIn(q, s)
  IN  IF gate.req.nexts > q.nexts
      THEN [gate EXCEPT !.req = Render(@, "index.ejs")]
      ELSE gate

\* app.get("/_dev-login", handler): the replaced isAuthenticated belongs to
\* this request object only.
devLogin_handler(q, s) ==
  [req |-> Redirect([q EXCEPT !.isAuthenticated = TRUE], "/index"),
   session |-> [s EXCEPT
     !.user = IF @ = NoUser THEN "dev-user" ELSE @,
     !.flash = @ \cup {"Development login successful!"}]]

\* app.post("/login", ...): passport.authenticate("local") either fails and
\* redirects, or logs the user in (req.login) and runs the handler.
login_handler(q, s, username, authentic) ==
  IF ~authentic
  THEN [req |-> Redirect(q, "/login?error=Invalid username or password"),
        session |-> [s EXCEPT !.flash = @ \cup {"Invalid credentials"}]]
  ELSE [req |-> Redirect([q EXCEPT !.user = username,
                                   !.isAuthenticated = TRUE], "/index"),
        session |-> [s EXCEPT !.passport = username, !.user = username,
                              !.flash = @ \cup {"Welcome to Saarthi!"}]]

----------------------------------------------------------------------------

(* The state machine.                                                       *)

Init ==
  /\ ENV \in [GEMINI_KEY : BOOLEAN, IS_VERCEL : BOOLEAN,
              NODE_ENV : {"development"}, MAINTENANCE_MODE : {FALSE},
              BYPASS_AUTH : {TRUE}, DB_URL : {TRUE}]
  /\ now = 0
  /\ req = [r \in ReqIds |-> IdleReq]
  /\ store = <<>>
  /\ app = connectToDatabase(NoApp, ENV, 0)
  /\ session = NoSession

\* a backoff that pauses the process: nothing starts while a call waits
Idle_unlessBackoff(r) ==
  req[r].pc = "idle" /\ \A k \in ReqIds : req[k].pc # "sleeping"

Idle(r) == req[r].pc = "idle"

Becomes(r, q) == req' = [req EXCEPT ![r] = q]

Ask(r) ==
  /\ Idle(r)
  /\ Becomes(r, ask_handler(req[r]))
  /\ UNCHANGED <<ENV, now, store, app, session>>

Syllabus(r) ==
  /\ Idle(r)
  /\ Becomes(r, syllabus_handler(req[r]))
  /\ UNCHANGED <<ENV, now, store, app, session>>

ProblemSolving(r) ==
  /\ Idle(r)
  /\ \E probJpg \in BOOLEAN : Becomes(r, problemSolving_invoke(req[r], probJpg))
  /\ UNCHANGED <<ENV, now, store, app, session>>

EssayWriter(r) ==
  /\ Idle(r)
  /\ Becomes(r, essayWriter_handler(req[r]))
  /\ UNCHANGED <<ENV, now, store, app, session>>

CodeExplainer(r) ==
  /\ Idle(r)
  /\ Becomes(r, codeExplainer_handler(req[r]))
  /\ UNCHANGED <<ENV, now, store, app, session>>

StudyPlanner(r) ==
  /\ Idle(r)
  /\ Becomes(r, studyPlanner_handler(req[r]))
  /\ UNCHANGED <<ENV, now, store, app, session>>

FlashcardGenerator(r) ==
  /\ Idle(r)
  /\ Becomes(r, flashcardGenerator_handler(req[r]))
  /\ UNCHANGED <<ENV, now, store, app, session>>

Chat(r) ==
  /\ Idle(r)
  /\ Becomes(r, chat_handler(req[r]))
  /\ UNCHANGED <<ENV, now, store, app, session>>

QuizGenerator(r) ==
  /\ Idle(r)
  /\ \E body \in QuizBodies : Becomes(r, quizGenerator_handler(req[r], body))
  /\ UNCHANGED <<ENV, now, store, app, session>>

Form(r) ==
  /\ Idle(r)
  /\ \E file \in BOOLEAN, name \in UploadNames, read \in {<<>>, ENOENT, EACCES} :
       /\ file \/ (name = <<"a",".","j","p","g">> /\ read = <<>>)
       /\ Becomes(r, form_handler(req[r], file,
                                  IF file THEN name ELSE <<>>, read))
  /\ UNCHANGED <<ENV, now, store, app, session>>

FormUploaded(r) ==
  /\ req[r].pc = "uploading"
  /\ \E ok \in BOOLEAN : Becomes(r, form_uploaded(req[r], ok))
  /\ UNCHANGED <<ENV, now, store, app, session>>

FormDownloaded(r) ==
  /\ req[r].pc = "downloading"
  /\ \E ok \in BOOLEAN : Becomes(r, form_downloaded(req[r], ok))
  /\ UNCHANGED <<ENV, now, store, app, session>>

\* the continuation of `await model.generateContent(...)` when it resolves
Resolved(q, text) ==
  CASE q.fn = "textQuery" -> textQuery_return(q, text)
    [] q.fn = "syllabusGen" -> syllabusGen_return(q, text)
    [] q.fn = "problemSolving" -> problemSolving_return(q, text)
    [] q.route = "/essay-writer" -> essayWriter_then(CallReturned(q, text), text)
    [] q.route = "/code-explainer" -> codeExplainer_then(CallReturned(q, text), text)
    [] q.route = "/study-planner" -> studyPlanner_then(CallReturned(q, text), text)
    [] q.route = "/flashcard-generator" ->
         flashcardGenerator_then(CallReturned(q, text), text)
    [] q.route = "/chat" -> chat_then(CallReturned(q, text), text)
    [] q.route = "/form" -> form_then(CallReturned(q, text), text)
    [] q.route = "/quiz-generator" -> quizGenerator_then(CallReturned(q, text), text)

\* the continuation of `await model.generateContent(...)` when it rejects
Rejected(q, error) ==
  CASE q.fn = "textQuery" -> textQuery_catch(q, error)
    [] q.fn = "syllabusGen" -> syllabusGen_catch(q, error)
    [] q.fn = "problemSolving" -> problemSolving_catch(q, error)
    [] q.route = "/essay-writer" -> essayWriter_catch(CallThrew(q, error), error)
    [] q.route = "/code-explainer" -> codeExplainer_catch(CallThrew(q, error), error)
    [] q.route = "/study-planner" -> studyPlanner_catch(CallThrew(q, error), error)
    [] q.route = "/flashcard-generator" ->
         flashcardGenerator_catch(CallThrew(q, error), error)
    [] q.route = "/chat" -> chat_catch(CallThrew(q, error), error)
    [] q.route = "/form" -> form_catch(CallThrew(q, error), error)
    [] q.route = "/quiz-generator" -> quizGenerator_catch(CallThrew(q, error), error)

GenerateContentResolves(r) ==
  /\ req[r].pc = "calling"
  /\ \E text \in ServiceTexts : Becomes(r, Resolved(req[r], text))
  /\ UNCHANGED <<ENV, now, store, app, session>>

GenerateContentRejects(r) ==
  /\ req[r].pc = "calling"
  /\ \E error \in ServiceErrors : Becomes(r, Rejected(req[r], error))
  /\ UNCHANGED <<ENV, now, store, app, session>>

\* generateContent resolves with a text answering a quiz prompt
QuizContentResolves(r) ==
  /\ req[r].pc = "calling"
  /\ req[r].route = "/quiz-generator"
  /\ \E text \in QuizTexts : Becomes(r, Resolved(req[r], text))
  /\ UNCHANGED <<ENV, now, store, app, session>>

\* outcomes of generateContent when two calls are in flight: the text, an
\* overload, another failure
TwinErrors ==
  { MkError("Error", 503, FALSE, <<>>, <<>>), MkError("Error", 500, FALSE, <<>>, <<>>) }

GenerateContentSettles(r) ==
  /\ req[r].pc = "calling"
  /\ \/ Becomes(r, Resolved(req[r], <<"A">>))
     \/ \E error \in TwinErrors : Becomes(r, Rejected(req[r], error))
  /\ UNCHANGED <<ENV, now, store, app, session>>

\* the continuation of the backoff await: `continue`
Continued(q, probJpg) ==
  CASE q.fn = "textQuery" -> textQuery_continue(q)
    [] q.fn = "syllabusGen" -> syllabusGen_continue(q)
    [] q.fn = "problemSolving" -> problemSolving_continue(q, probJpg)

\* the setTimeout callback runs: never before its delay has passed
TimerFires(r) ==
  /\ req[r].pc = "sleeping"
  /\ now >= req[r].wakeAt
  /\ \E probJpg \in BOOLEAN :
       /\ probJpg \/ req[r].fn = "problemSolving"
       /\ Becomes(r, Continued([req[r] EXCEPT
                                  !.waits[Len(req[r].waits)].until = now],
                               probJpg))
  /\ UNCHANGED <<ENV, now, store, app, session>>

\* time passes while a timer is pending
Tick ==
  /\ app.pending > 0 \/ \E r \in ReqIds : req[r].pc = "sleeping"
  /\ app.pending > 0 => now < app.retryAt + MaxLate
  /\ \A r \in ReqIds :
       req[r].pc = "sleeping" => now < req[r].wakeAt + MaxLate
  /\ now' = now + TickMs
  /\ UNCHANGED <<ENV, req, store, app, session>>

SubmitQuiz(r) ==
  /\ Idle(r)
  /\ \E user \in Users \cup {NoUser}, body \in SmallBodies :
       Becomes(r, submitQuiz_handler(req[r], user, body))
  /\ UNCHANGED <<ENV, now, store, app, session>>

\* the same handler, on the long answer arrays
SubmitLongQuiz(r) ==
  /\ Idle(r)
  /\ \E user \in Users, body \in LongBodies :
       Becomes(r, submitQuiz_handler(req[r], user, body))
  /\ UNCHANGED <<ENV, now, store, app, session>>

\* an upsert: the user's earlier record on the topic is overwritten
SubmitQuizSaved_upsert(r) ==
  /\ req[r].pc = "saving"
  /\ \E dbOk \in BOOLEAN :
       LET written == req[r].doc.valid /\ dbOk
           same == { i \in 1..Len(store) :
                       /\ store[i].doc.user = req[r].doc.user
                       /\ store[i].doc.topic = req[r].doc.topic }
       IN /\ store' = IF ~written THEN store
                      ELSE IF same = {}
                      THEN Append(store, [id |-> Len(store) + 1, doc |-> req[r].doc])
                      ELSE [i \in 1..Len(store) |->
                              IF i \in same THEN [store[i] EXCEPT !.doc = req[r].doc]
                              ELSE store[i]]
          /\ Becomes(r, submitQuiz_saved(req[r], written))
  /\ UNCHANGED <<ENV, now, app, session>>

\* quizResult.save() settles: a document the schema rejects is never written,
\* and the write itself can fail
SubmitQuizSaved(r) ==
  /\ req[r].pc = "saving"
  /\ \E dbOk \in BOOLEAN :
       LET written == req[r].doc.valid /\ dbOk
       IN /\ store' = IF written
                      THEN Append(store, [id |-> Len(store) + 1, doc |-> req[r].doc])
                      ELSE store
          /\ Becomes(r, submitQuiz_saved(req[r], written))
  /\ UNCHANGED <<ENV, now, app, session>>

\* documents built at the current millisecond, stored or being saved
CompletedNow ==
  Cardinality({ i \in 1..Len(store) : store[i].doc.completedAt = now })
    + Cardinality({ r \in ReqIds : req[r].pc = "saving"
                                     /\ req[r].doc.completedAt = now })

Saving == Cardinality({ r \in ReqIds : req[r].pc = "saving" })

\* /submit-quiz again and again with the same body, by one of users
SubmitAgain(r, users, maxStored, maxSame) ==
  /\ Idle(r)
  /\ Len(store) + Saving < maxStored
  /\ CompletedNow < maxSame
  /\ \E user \in users : Becomes(r, submitQuiz_handler(req[r], user, TinyBody))
  /\ UNCHANGED <<ENV, now, store, app, session>>

QuizHistory(r, users) ==
  /\ Idle(r)
  /\ \E user \in users : Becomes(r, quizHistory_handler(req[r], user))
  /\ UNCHANGED <<ENV, now, store, app, session>>

\* the query settles: it rejects, or resolves with the records then stored
QuizHistoryFound(r) ==
  /\ req[r].pc = "finding"
  /\ \/ Becomes(r, quizHistory_found(req[r], FALSE, <<>>))
     \/ \E quizResults \in quizHistory_query(req[r].user) :
          Becomes(r, quizHistory_found(req[r], TRUE, quizResults))
  /\ UNCHANGED <<ENV, now, store, app, session>>

\* the response is out: the client's next request finds the slot idle
RequestEnds(r) ==
  /\ req[r].pc = "done"
  /\ Becomes(r, IdleReq)
  /\ UNCHANGED <<ENV, now, store, app, session>>

\* Date.now() moves on; a millisecond in which no document was built is
\* not told apart from the one before
Millisecond(maxClock) ==
  /\ now < maxClock
  /\ CompletedNow > 0
  /\ now' = now + 1
  /\ UNCHANGED <<ENV, req, store, app, session>>

Handle(r) ==
  \/ Ask(r) \/ Syllabus(r) \/ ProblemSolving(r)
  \/ EssayWriter(r) \/ CodeExplainer(r) \/ StudyPlanner(r)
  \/ FlashcardGenerator(r) \/ Chat(r) \/ QuizGenerator(r)
  \/ Form(r) \/ FormUploaded(r) \/ FormDownloaded(r)
  \/ GenerateContentResolves(r) \/ GenerateContentRejects(r)
  \/ TimerFires(r)
  \/ SubmitQuiz(r) \/ SubmitQuizSaved(r)
  \/ QuizHistory(r, Users \cup {NoUser}) \/ QuizHistoryFound(r)

Next == Handle(1) \/ Tick

Spec == Init /\ [][Next]_vars

\* the scoring of /submit-quiz alone, on the long answer arrays
NextScore == SubmitLongQuiz(1) \/ SubmitQuizSaved(1)

SpecScore == Init /\ [][NextScore]_vars

\* /quiz-generator alone, on the quiz texts
NextQuizGen ==
  QuizGenerator(1) \/ QuizContentResolves(1) \/ GenerateContentRejects(1)

SpecQuizGen == Init /\ [][NextQuizGen]_vars

\* the deployment on Vercel with its API key set
InitQuiz == Init /\ ENV.GEMINI_KEY /\ ENV.IS_VERCEL

\* one user submitting and reading the history over and over
NextHistory ==
  \/ SubmitAgain(1, {"u1"}, MaxRecords, MaxSameMs) \/ SubmitQuizSaved(1)
  \/ QuizHistory(1, {"u1"}) \/ QuizHistoryFound(1)
  \/ RequestEnds(1) \/ Millisecond(MaxClock)

SpecHistory == InitQuiz /\ [][NextHistory]_vars

\* two clients at once, each submitting and reading as any user
Serve(r) ==
  \/ SubmitAgain(r, Users, MaxStored, MaxStored)
  \/ SubmitQuizSaved(r)
  \/ QuizHistory(r, Users \cup {NoUser}) \/ QuizHistoryFound(r)
  \/ RequestEnds(r)

NextOwners == Serve(1) \/ Serve(2) \/ Millisecond(MaxMs)

SpecOwners == InitQuiz /\ [][NextOwners]_vars

\* two requests in flight at once, each with its own generation calls
Twin(r) ==
  Ask(r) \/ Chat(r) \/ GenerateContentSettles(r) \/ TimerFires(r)

NextTwin == Twin(1) \/ Twin(2) \/ Tick

SpecTwin == InitQuiz /\ [][NextTwin]_vars

\* every external call settles, every due timer fires, and time passes
Fairness ==
  /\ WF_vars(GenerateContentResolves(1) \/ GenerateContentRejects(1))
  /\ WF_vars(TimerFires(1))
  /\ WF_vars(Tick)
  /\ WF_vars(FormUploaded(1))
  /\ WF_vars(FormDownloaded(1))
  /\ WF_vars(SubmitQuizSaved(1))

SpecLive == Spec /\ Fairness

----------------------------------------------------------------------------
(* The properties.                                                          *)

RetryFns == {"textQuery", "syllabusGen", "problemSolving"}

AIRoutes ==
  {"/syllabus", "/ask", "/chat", "/form", "/essay-writer", "/code-explainer",
   "/study-planner", "/flashcard-generator", "/quiz-generator"}

\* a failure signals overload: status 503, or "overloaded" within the message
Retryable(e) ==
  \/ e.status = 503
  \/ /\ e.hasMessage
     /\ \E i \in 0..(Len(e.message) - 10) :
          \A k \in 1..10 : e.message[i + k] = OVERLOADED[k]

FailedRetryable(h) == ~h.ok /\ Retryable(h.error)

AllRetryable(q) ==
  Len(q.history) >= 1 /\ \A n \in 1..Len(q.history) : FailedRetryable(q.history[n])

Terminal(q) == q.callState \in {"Success", "TerminalFailure"}

\* C1: a retry loop whose attempts all fail with an overload error makes
\* exactly 3 attempts, never a 4th, and fails with a retryable error.
C1_RetryBound ==
  \A r \in ReqIds :
    LET q == req[r]
    IN q.fn \in RetryFns =>
         /\ q.extCalls <= 3 /\ Len(q.starts) <= 3 /\ q.attempt <= 3
         /\ (q.callState = "TerminalFailure" /\ AllRetryable(q)) =>
              /\ Len(q.history) = 3 /\ Len(q.starts) = 3 /\ q.extCalls = 3
              /\ Retryable(q.thrown)

C1_Witness ==
  /\ req[1].fn = "textQuery" /\ req[1].callState = "TerminalFailure"
  /\ AllRetryable(req[1]) /\ req[1].extCalls = 3

\* C2: a non-retryable failure of attempt k ends the call at once: k attempts
\* in total, no backoff after the failing attempt, no later attempt.
C2_NonRetryableStops ==
  \A r \in ReqIds :
    LET q == req[r]
    IN q.fn \in RetryFns =>
         \A k \in 1..Len(q.history) :
           (~q.history[k].ok /\ ~Retryable(q.history[k].error)) =>
              /\ k = Len(q.history) /\ Len(q.starts) = k
              /\ Len(q.waits) = k - 1
              /\ q.callState = "TerminalFailure" /\ q.pc = "done"
              /\ q.thrown = q.history[k].error

C2_Witness ==
  /\ req[1].fn = "syllabusGen" /\ req[1].extCalls = 1
  /\ Len(req[1].history) = 1 /\ ~Retryable(req[1].history[1].error)
  /\ req[1].callState = "TerminalFailure" /\ Len(req[1].starts) = 1

\* C3: a failure is retried iff its status is 503 or its message contains
\* "overloaded", and /ask, /chat and /form answer 503 on exactly that test.
C3_RetryPredicate ==
  \A r \in ReqIds :
    LET q == req[r]
    IN /\ q.fn \in RetryFns =>
            \A n \in 1..Len(q.history) :
              (~q.history[n].ok /\ n < 3) =>
                 (Len(q.waits) >= n <=> Retryable(q.history[n].error))
       /\ (q.route \in {"/ask", "/chat", "/form"} /\ q.caught # NoError) =>
            (q.response.status = 503 <=> Retryable(q.caught))
       /\ q.response.status = 503 => q.route \in {"/ask", "/chat", "/form"}

C3_Witness ==
  /\ req[1].route = "/ask" /\ req[1].response.status = 503
  /\ req[1].caught.status # 503 /\ Len(req[1].caught.message) > 10
  /\ Len(req[1].waits) = 2

\* C4: when attempt k succeeds after k-1 overload failures, the call returns
\* the text of attempt k, makes no further attempt, and the request ends with
\* a success response carrying that text.
C4_SuccessAfterRetries ==
  \A r \in ReqIds :
    LET q == req[r]
    IN q.fn \in RetryFns =>
         \A k \in 1..Len(q.history) :
           q.history[k].ok =>
              /\ k = Len(q.history) /\ Len(q.starts) = k /\ q.extCalls = k
              /\ \A n \in 1..(k - 1) : FailedRetryable(q.history[n])
              /\ q.callState = "Success" /\ q.returned = q.history[k].text
              /\ q.thrown = NoError /\ q.caught = NoError /\ q.pc = "done"
              /\ q.route \in {"/ask", "/syllabus"} =>
                   /\ q.responses = 1
                   /\ q.response.status = 200 /\ q.response.key = "result"
                   /\ q.response.text = q.history[k].text
                   /\ q.response.error = ""

C4_Witness ==
  /\ req[1].route = "/ask" /\ Len(req[1].history) = 3 /\ req[1].history[3].ok
  /\ req[1].response.status = 200

\* C5: after a retryable failure of attempt n < 3 the loop waits n x 2000 ms
\* before attempt n+1 starts; there is no wait after the 3rd attempt, after a
\* non-retryable failure or after a success.
C5_Backoff ==
  \A r \in ReqIds :
    LET q == req[r]
    IN q.fn \in RetryFns =>
         /\ \A n \in 1..Len(q.waits) :
              /\ n < 3 /\ n <= Len(q.history) /\ FailedRetryable(q.history[n])
              /\ q.waits[n].delay = n * 2000
              /\ q.waits[n].from = q.history[n].at
         /\ \A n \in 2..Len(q.starts) :
              /\ Len(q.waits) >= n - 1
              /\ q.starts[n] >= q.history[n - 1].at + (n - 1) * 2000
              /\ q.waits[n - 1].until = q.starts[n]
         /\ \A n \in 1..Len(q.history) :
              (n >= 3 \/ ~FailedRetryable(q.history[n])) => Len(q.waits) < n

C5_Witness ==
  /\ req[1].fn = "syllabusGen" /\ Len(req[1].starts) = 3
  /\ req[1].starts[2] - req[1].history[1].at >= 2000
  /\ req[1].starts[3] - req[1].history[2].at >= 4000

\* C6: a call that ends in terminal failure propagates the error of the last
\* attempt made, unmodified, whatever the earlier attempts failed with.
C6_LastErrorPropagates ==
  \A r \in ReqIds :
    LET q == req[r]
    IN (q.fn \in RetryFns /\ q.callState = "TerminalFailure") =>
         /\ Len(q.history) >= 1
         /\ q.thrown = q.history[Len(q.history)].error
         /\ q.route \in {"/ask", "/syllabus"} => q.caught = q.thrown

C6_Witness ==
  /\ req[1].fn = "problemSolving" /\ req[1].callState = "TerminalFailure"
  /\ Len(req[1].history) = 3
  /\ req[1].history[1].error # req[1].history[3].error
  /\ req[1].history[2].error # req[1].history[3].error
  /\ req[1].thrown = req[1].history[3].error

\* C7: on every AI-backed route a request whose generation call finally fails
\* is answered 503 when the final error is an overload and 500 otherwise.
C7_StatusByClassification ==
  \A r \in ReqIds :
    LET q == req[r]
    IN (q.route \in AIRoutes /\ q.pc = "done" /\ q.callState = "TerminalFailure") =>
         q.response.status = IF Retryable(q.thrown) THEN 503 ELSE 500

\* C8: on every AI-backed route the 503 answer is sent only after 3 attempts
\* against the generation service were made for the request.
C8_OverloadOnlyAfterRetries ==
  \A r \in ReqIds :
    LET q == req[r]
    IN (q.route \in AIRoutes /\ q.callState = "TerminalFailure"
          /\ q.response.status = 503) => q.extCalls = 3

\* C9: a retry loop starts in Attempting(1); if every external call settles it
\* reaches Success or TerminalFailure; the attempt index grows by 1 per retry
\* and nothing leaves a terminal state.
C9_Terminates ==
  /\ [][\A r \in ReqIds :
          /\ (req[r].pc = "idle" /\ req'[r].fn \in RetryFns) =>
               (req'[r].attempt = 1 /\ Len(req'[r].starts) = 1)
          /\ (req[r].fn \in RetryFns) =>
               /\ req'[r].attempt \in {req[r].attempt, req[r].attempt + 1}
               /\ Len(req'[r].starts) = Len(req[r].starts)
                    + (req'[r].attempt - req[r].attempt)
          /\ Terminal(req[r]) =>
               /\ req'[r].callState = req[r].callState
               /\ req'[r].attempt = req[r].attempt
               /\ req'[r].returned = req[r].returned
               /\ req'[r].thrown = req[r].thrown]_vars
  /\ \A r \in ReqIds :
       (req[r].fn \in RetryFns /\ req[r].callState = "Attempting")
         ~> (Terminal(req[r]) /\ req[r].pc = "done")

C9_Witness ==
  /\ req[1].fn = "textQuery" /\ Terminal(req[1]) /\ req[1].attempt = 3
  /\ Len(req[1].waits) = 2

\* round(a / b), halves up, for integers a >= 0 and b > 0
RoundHalfUp(a, b) == (2 * a + b) \div (2 * b)

Matches(answers) ==
  { i \in 1..Len(answers) : answers[i].userAnswer = answers[i].correctAnswer }

\* C10: for N >= 1 submitted pairs of which C match, /submit-quiz returns and
\* persists correctAnswers = C and score = round(100*C/N), halves up, with the
\* N annotated answers in order, numbered 1..N and flagged iff the pair matches.
C10_Score ==
  \A r \in ReqIds :
    LET q == req[r]
        answers == q.body.answers
        N == Len(answers)
        C == Cardinality(Matches(answers))
        out == q.response.data
        saved == store[Len(store)].doc
    IN (q.route = "/submit-quiz" /\ q.response.status = 200 /\ N >= 1) =>
         /\ out.correctAnswers = C /\ out.score = RoundHalfUp(100 * C, N)
         /\ Len(out.userAnswers) = N
         /\ \A i \in 1..N :
              /\ out.userAnswers[i].questionNumber = i
              /\ out.userAnswers[i].userAnswer = answers[i].userAnswer
              /\ out.userAnswers[i].correctAnswer = answers[i].correctAnswer
              /\ out.userAnswers[i].isCorrect <=> i \in Matches(answers)
         /\ Len(store) >= 1
         /\ saved.correctAnswers = C /\ saved.score = RoundHalfUp(100 * C, N)
         /\ saved.userAnswers = out.userAnswers

\* C11: every quiz attempt record persisted by /submit-quiz has as many
\* annotated answers as totalQuestions, 0 <= correctAnswers <= totalQuestions
\* and score = round(100 * correctAnswers / totalQuestions), whatever the
\* count field of the accepted body was.
C11_RecordInvariant ==
  \A i \in 1..Len(store) :
    LET doc == store[i].doc
    IN /\ Len(doc.userAnswers) = doc.totalQuestions
       /\ 0 <= doc.correctAnswers /\ doc.correctAnswers <= doc.totalQuestions
       /\ doc.score = RoundHalfUp(100 * doc.correctAnswers, doc.totalQuestions)

\* C12: a submission with zero answer pairs fails explicitly: it is answered
\* with an error, no success response carrying a score is sent for it, and no
\* record without answers is ever persisted.
C12_EmptyFails ==
  /\ \A r \in ReqIds :
       LET q == req[r]
       IN (q.route = "/submit-quiz" /\ Len(q.body.answers) = 0) =>
            /\ q.response.status # 200
            /\ q.response.data = NoData
            /\ q.pc = "done" =>
                 /\ q.response.status = 500 /\ q.response.key = "error"
                 /\ q.responses = 1
  /\ \A i \in 1..Len(store) : Len(store[i].doc.userAnswers) > 0

C12_Witness ==
  /\ req[1].route = "/submit-quiz" /\ req[1].pc = "done"
  /\ req[1].user \in Users /\ req[1].body.hasAnswers
  /\ req[1].body.answers = <<>> /\ req[1].body.topic = "t"
  /\ req[1].body.count = <<"1">> /\ req[1].body.timeTaken = <<"9">>
  /\ req[1].doc # NoDoc /\ req[1].response.status = 500

\* C13: a submission whose answer set is empty or missing is rejected as a
\* client input error: it is answered with a 4xx status, never a 5xx one, and
\* no document is built or saved for it.
C13_EmptyIsClientError ==
  \A r \in ReqIds :
    LET q == req[r]
    IN (q.route = "/submit-quiz" /\ q.user # NoUser /\ Len(q.body.answers) = 0) =>
         /\ q.pc # "saving" /\ q.doc = NoDoc
         /\ q.pc = "done" => (q.response.status >= 400 /\ q.response.status < 500)

\* C14: a /form request without an uploaded image is answered 400, and no
\* call of the generation service and no upload to the image store is ever
\* made for it.
C14_NoFileNoWork ==
  \A r \in ReqIds :
    LET q == req[r]
    IN (q.route = "/form" /\ ~q.file) =>
         /\ q.pc = "done" /\ q.responses = 1
         /\ q.response.status = 400 /\ q.response.key = "error"
         /\ q.extCalls = 0 /\ q.starts = <<>> /\ q.history = <<>>
         /\ q.uploads = 0 /\ ~q.inCloud

C14_Witness ==
  /\ ENV.IS_VERCEL /\ ENV.GEMINI_KEY
  /\ req[1].route = "/form" /\ ~req[1].file
  /\ req[1].response.status = 400 /\ req[1].pc = "done"

\* the positions of character c in text s
Positions(s, c) == { i \in 1..Len(s) : s[i] = c }

\* s has a "{" followed later by a "}"
HasSpan(s) ==
  \E i \in Positions(s, "{"), j \in Positions(s, "}") : i < j

\* the substring of s from its first "{" to its last "}"
Span(s) ==
  LET first == CHOOSE i \in Positions(s, "{") : \A k \in Positions(s, "{") : i <= k
      last == CHOOSE j \in Positions(s, "}") : \A k \in Positions(s, "}") : j >= k
  IN SubSeq(s, first, last)

\* the success response of /quiz-generator carrying value under `quiz`
QuizAnswered(q, value) ==
  /\ q.response.status = 200 /\ q.response.key = "quiz"
  /\ q.response.data.quiz = value
  /\ q.response.data.topic = q.body.topic
  /\ q.response.data.difficulty = q.body.difficulty
  /\ q.response.data.type = q.body.type
  /\ q.response.data.count = q.body.count

\* the value of {"questions":[]}
EmptyQuiz ==
  [t |-> "object",
   v |-> << << <<"q","u","e","s","t","i","o","n","s">>,
               [t |-> "array", v |-> <<>>] >> >>]

\* C15: when the whole generated text parses as JSON, /quiz-generator answers
\* with that value, whatever the salvage would have extracted; otherwise, when
\* the text from its first "{" to its last "}" parses, with the value of that
\* substring; the answer carries it under `quiz` with the echoed topic,
\* difficulty, type and count.
C15_QuizShaping ==
  \A r \in ReqIds :
    LET q == req[r]
        text == q.returned
    IN (q.route = "/quiz-generator" /\ q.callState = "Success") =>
         /\ JSONparse(text).ok => QuizAnswered(q, JSONparse(text).v)
         /\ (~JSONparse(text).ok /\ HasSpan(text) /\ JSONparse(Span(text)).ok) =>
              QuizAnswered(q, JSONparse(Span(text)).v)
         /\ text = QuizWrapped => QuizAnswered(q, EmptyQuiz)

C15_Witness ==
  /\ req[1].route = "/quiz-generator" /\ req[1].returned = QuizWrapped
  /\ req[1].response.status = 200 /\ req[1].response.data.quiz = EmptyQuiz

\* the failure response of /quiz-generator for an answer with no usable JSON
NoStructuredResult(q) ==
  /\ q.response.status = 500 /\ q.response.key = "error"
  /\ q.response.error =
       "Failed to generate structured quiz. Please try again with a different topic."
  /\ q.response.data = NoData

\* C16: /quiz-generator answers with the "no structured result" failure, which
\* has no `quiz` field, exactly when the strict parse fails and the text has no
\* "{"..."}" span or the span does not parse; one response is sent either way.
C16_NoStructuredResult ==
  \A r \in ReqIds :
    LET q == req[r]
        text == q.returned
    IN /\ (q.route = "/quiz-generator" /\ q.callState = "Success") =>
            /\ q.pc = "done" /\ q.responses = 1
            /\ NoStructuredResult(q) <=>
                 /\ ~JSONparse(text).ok
                 /\ ~HasSpan(text) \/ ~JSONparse(Span(text)).ok
       /\ (q.route = "/quiz-generator" /\ NoStructuredResult(q)) =>
            q.callState = "Success"

C16_Witness ==
  /\ req[1].route = "/quiz-generator" /\ req[1].returned = QuizTwoObjects
  /\ NoStructuredResult(req[1]) /\ req[1].responses = 1

\* two documents built from the same submission by the same user
SameInputs(d, e) ==
  /\ d.user = e.user /\ d.topic = e.topic /\ d.difficulty = e.difficulty
  /\ d.questionType = e.questionType /\ d.totalQuestions = e.totalQuestions
  /\ d.userAnswers = e.userAnswers /\ d.timeTaken = e.timeTaken

\* the stored records of a user
RecordsOf(user) == { i \in 1..Len(store) : store[i].doc.user = user }

\* the place of a record in a history listing, 0 when it is not listed
Place(quizResults, record) ==
  IF \E k \in 1..Len(quizResults) : quizResults[k] = record
  THEN CHOOSE k \in 1..Len(quizResults) : quizResults[k] = record
  ELSE 0

\* slot r receives its answer to /submit-quiz in this step
SubmitAnswered(r) ==
  req[r].route = "/submit-quiz" /\ req[r].pc = "saving" /\ req'[r].pc = "done"

\* slot r receives the records of /quiz-history in this step
HistoryAnswered(r) ==
  /\ req[r].route = "/quiz-history" /\ req[r].pc = "finding"
  /\ req'[r].pc = "done" /\ req'[r].response.status = 200

\* C17: a submission identical to a stored one is stored as a further record
\* of its own, and a later /quiz-history of that user lists both, the one
\* completed later first.
C17_Resubmission ==
  /\ [](\A i, j \in 1..Len(store) : i # j => store[i].id # store[j].id)
  /\ [][\A r \in ReqIds :
          /\ (SubmitAnswered(r) /\ req'[r].response.status = 200
                /\ \E i \in 1..Len(store) : SameInputs(store[i].doc, req[r].doc)) =>
               /\ Len(store') = Len(store) + 1
               /\ SubSeq(store', 1, Len(store)) = store
               /\ store'[Len(store')].doc = req[r].doc
          /\ HistoryAnswered(r) =>
               \A i, j \in RecordsOf(req[r].user) :
                 (i # j /\ SameInputs(store[i].doc, store[j].doc)
                    /\ Cardinality(RecordsOf(req[r].user)) <= 10) =>
                   LET quizResults == req'[r].response.data.quizResults
                       pi == Place(quizResults, store[i])
                       pj == Place(quizResults, store[j])
                   IN /\ pi > 0 /\ pj > 0 /\ pi # pj
                      /\ store[i].doc.completedAt > store[j].doc.completedAt
                           => pi < pj]_vars

C17_Witness ==
  /\ Len(store) = 2 /\ SameInputs(store[1].doc, store[2].doc)
  /\ store[1].doc.completedAt < store[2].doc.completedAt
  /\ req[1].route = "/quiz-history" /\ req[1].response.status = 200
  /\ req[1].user = store[1].doc.user
  /\ req[1].response.data.quizResults = <<store[2], store[1]>>

\* C18: /quiz-history answers with at most 10 records of the user, ordered by
\* completion time, latest first, and they are the most recent ones: none of
\* the user's records left out was completed later than a record listed.
C18_RecentHistory ==
  \A r \in ReqIds :
    LET q == req[r]
        quizResults == q.response.data.quizResults
        mine == RecordsOf(q.user)
        listed == { i \in mine : Place(quizResults, store[i]) > 0 }
    IN (q.route = "/quiz-history" /\ q.response.status = 200) =>
         /\ Len(quizResults) <= 10
         /\ Len(quizResults) = IF Cardinality(mine) < 10 THEN Cardinality(mine) ELSE 10
         /\ Cardinality(listed) = Len(quizResults)
         /\ \A k \in 1..Len(quizResults) : \E i \in mine : quizResults[k] = store[i]
         /\ \A k, l \in 1..Len(quizResults) :
              k < l => quizResults[k].doc.completedAt >= quizResults[l].doc.completedAt
         /\ \A i \in mine \ listed, k \in listed :
              store[i].doc.completedAt <= store[k].doc.completedAt

C18_Witness ==
  /\ req[1].route = "/quiz-history" /\ req[1].response.status = 200
  /\ Cardinality(RecordsOf(req[1].user)) = 11
  /\ Len(req[1].response.data.quizResults) = 10
  /\ Place(req[1].response.data.quizResults, store[1]) = 0
  /\ store[1].doc.completedAt < store[11].doc.completedAt
  /\ \E i \in 1..10 : store[i].doc.completedAt = store[i + 1].doc.completedAt

\* C19: a record belongs to the user who submitted it: the record a submission
\* stores carries the requester as its user, a /quiz-history answer lists only
\* records of the requester, and what /quiz-history can answer to one user is
\* left unchanged by the submissions of another.
C19_Ownership ==
  /\ [](\A r \in ReqIds :
          (req[r].route = "/quiz-history" /\ req[r].response.status = 200) =>
            \A k \in 1..Len(req[r].response.data.quizResults) :
              req[r].response.data.quizResults[k].doc.user = req[r].user)
  /\ [][\A r \in ReqIds :
          /\ (SubmitAnswered(r) /\ store' # store) =>
               /\ req[r].user \in Users
               /\ store'[Len(store')].doc.user = req[r].user
               /\ \A A \in Users \ {req[r].user} :
                    /\ quizHistory_query(A)' = quizHistory_query(A)
                    /\ RecordsOf(A)' = RecordsOf(A)
          /\ HistoryAnswered(r) =>
               \A i \in 1..Len(store) :
                 Place(req'[r].response.data.quizResults, store[i]) > 0
                   => store[i].doc.user = req[r].user]_vars

C19_Witness ==
  /\ Len(store) = 3
  /\ store[1].doc.user = "u1" /\ store[2].doc.user = "u2"
  /\ store[3].doc.user = "u1"
  /\ req[1].route = "/quiz-history" /\ req[1].user = "u1"
  /\ req[1].response.status = 200
  /\ Len(req[1].response.data.quizResults) = 2
  /\ req[2].route = "/submit-quiz" /\ req[2].user = "u2"
  /\ req[2].response.status = 200

\* C20: a stored record is never modified or deleted: every step leaves the
\* stored records as they are, a submission adds one record exactly when it is
\* accepted, and no other step, a history read included, changes the store.
C20_AppendOnly ==
  [][/\ Len(store') >= Len(store)
     /\ SubSeq(store', 1, Len(store)) = store
     /\ \A r \in ReqIds :
          /\ SubmitAnswered(r) =>
               /\ req'[r].response.status = 200 <=> Len(store') = Len(store) + 1
               /\ req'[r].response.status = 200 =>
                    /\ store'[Len(store')].doc = req[r].doc
                    /\ \A i \in 1..Len(store) : store'[Len(store')].id # store[i].id
               /\ req'[r].response.status # 200 => store' = store
          /\ HistoryAnswered(r) => store' = store
     /\ (\A r \in ReqIds : ~SubmitAnswered(r)) => store' = store]_vars

C20_Witness ==
  /\ Len(store) = 3
  /\ req[1].route = "/submit-quiz" /\ req[1].response.status = 200
  /\ req[1].doc = store[3].doc
  /\ SameInputs(store[1].doc, store[3].doc)
  /\ req[2].route = "/quiz-history" /\ req[2].response.status = 200
  /\ Len(req[2].response.data.quizResults) >= 1

\* C21: when the save of the quiz attempt record fails, the store is left as
\* it was and the request is answered 500 with the generic message, never with
\* success; a success response with a score is sent only in the step in which
\* the whole record has been stored.
C21_PersistFailure ==
  [][\A r \in ReqIds :
       SubmitAnswered(r) =>
         /\ req'[r].responses = 1
         /\ req'[r].response.status \in {200, 500}
         /\ req'[r].response.status = 500 =>
              /\ store' = store
              /\ req'[r].response.data = NoData
              /\ req'[r].response.error = "Failed to submit quiz. Please try again."
         /\ req'[r].response.status = 200 =>
              /\ Len(store') = Len(store) + 1
              /\ SubSeq(store', 1, Len(store)) = store
              /\ store'[Len(store')].doc = req[r].doc
              /\ req'[r].response.data.score = store'[Len(store')].doc.score
         /\ store' # store => req'[r].response.status = 200]_vars

C21_Witness ==
  /\ req[1].route = "/submit-quiz" /\ req[1].pc = "done"
  /\ req[1].doc # NoDoc /\ req[1].doc.valid
  /\ req[1].response.status = 500 /\ store = <<>>

\* how a failed request failed: on its input, on the generated text, on an
\* overload, on the file system, on another service error, or with no error
\* of the generation service at all
FailureClass(q) ==
  IF q.route = "/form" /\ ~q.file THEN "input"
  ELSE IF q.callState = "Success" THEN "unstructured"
  ELSE IF q.caught = NoError THEN "internal"
  ELSE IF Retryable(q.caught) THEN "overload"
  ELSE IF q.caught.code \in {EROFS, ENOENT} THEN "filesystem"
  ELSE "generic"

HighTraffic ==
  "The AI service is currently experiencing high traffic. Please try again in a few minutes."

TroubleProcessing ==
  "I apologize, but I'm having trouble processing your request right now. Please try again in a moment."

\* the status, key and string of a route's failure response, by class
FixedBody(route, class) ==
  CASE route = "/ask" ->
         IF class = "overload" THEN <<503, "error", HighTraffic>>
         ELSE <<500, "error", TroubleProcessing>>
    [] route = "/chat" ->
         IF class = "overload" THEN <<503, "message", HighTraffic>>
         ELSE <<500, "message", TroubleProcessing>>
    [] route = "/form" ->
         IF class = "input" THEN <<400, "error", "No image file uploaded">>
         ELSE IF class = "internal" THEN <<500, "error", "Failed to upload image">>
         ELSE IF class = "overload" THEN <<503, "error", HighTraffic>>
         ELSE IF class = "filesystem"
         THEN <<500, "error", "File system error. We're using Cloudinary for uploads now.">>
         ELSE <<500, "error",
                "An error occurred while processing your image. Please try again.">>
    [] route = "/syllabus" ->
         <<500, "error",
           "I apologize, but I'm having trouble generating the syllabus right now. Please try again in a moment.">>
    [] route = "/essay-writer" ->
         <<500, "error",
           "I apologize, but I'm having trouble generating the essay right now. Please try again in a moment.">>
    [] route = "/code-explainer" ->
         <<500, "error",
           "I apologize, but I'm having trouble explaining the code right now. Please try again in a moment.">>
    [] route = "/study-planner" ->
         <<500, "error",
           "I apologize, but I'm having trouble creating the study plan right now. Please try again in a moment.">>
    [] route = "/flashcard-generator" ->
         <<500, "error",
           "I apologize, but I'm having trouble generating flashcards right now. Please try again in a moment.">>
    [] route = "/quiz-generator" ->
         IF class = "unstructured"
         THEN <<500, "error",
                "Failed to generate structured quiz. Please try again with a different topic.">>
         ELSE <<500, "error", "Failed to generate quiz. Please try again.">>
    [] route = "/submit-quiz" ->
         <<500, "error", "Failed to submit quiz. Please try again.">>
    [] route = "/quiz-history" -> <<500, "error", "Failed to fetch quiz history.">>

\* C22: the body of a failure response is a fixed string of the route, chosen
\* by the class of the failure alone: nothing of the caught error is in it, so
\* two failures of one route and one class are answered alike.
C22_FixedBodies ==
  \A r \in ReqIds :
    LET q == req[r]
    IN (q.route # "" /\ q.response.status >= 400) =>
         /\ <<q.response.status, q.response.key, q.response.error>>
              = FixedBody(q.route, FailureClass(q))
         /\ q.response.text = <<>> /\ q.response.data = NoData

C22_Witness ==
  /\ req[1].route = "/ask" /\ req[1].response.status = 500
  /\ req[1].caught.hasMessage
  /\ req[1].caught.message = <<"f","e","t","c","h"," ","f","a","i","l","e","d">>
  /\ req[1].caught.status = 429

\* the retry loop of q has counted its own attempts and waits, no others
OwnAttempts(q) ==
  /\ Len(q.starts) = q.attempt /\ q.extCalls = q.attempt
  /\ Len(q.history) \in {q.attempt - 1, q.attempt}
  /\ Len(q.waits) = IF q.pc = "sleeping" THEN q.attempt ELSE q.attempt - 1
  /\ \A n \in 1..Len(q.waits) :
       /\ q.waits[n].after = n /\ q.waits[n].delay = 2000 * n
       /\ FailedRetryable(q.history[n])
       /\ n < Len(q.starts) => q.starts[n + 1] = q.waits[n].until

\* C23: while a call waits in its backoff, another request can start, have
\* its generation call settled and its due timer run; each call counts its own
\* attempts and waits, and a step of one request leaves the other as it was.
C23_ScopedBackoff ==
  /\ [](\A r, k \in ReqIds :
          (r # k /\ req[r].pc = "sleeping") =>
            /\ req[k].pc = "idle" => (ENABLED Ask(k) /\ ENABLED Chat(k))
            /\ req[k].pc = "calling" => ENABLED GenerateContentSettles(k)
            /\ (req[k].pc = "sleeping" /\ now >= req[k].wakeAt) => ENABLED TimerFires(k))
  /\ [](\A r \in ReqIds : req[r].fn = "textQuery" => OwnAttempts(req[r]))
  /\ [][\A r, k \in ReqIds :
          (r # k /\ req'[r] # req[r]) => req'[k] = req[k]]_vars

C23_Witness ==
  /\ req[1].fn = "textQuery" /\ req[1].pc = "sleeping"
  /\ Len(req[1].waits) = 2 /\ now < req[1].wakeAt
  /\ req[2].fn = "textQuery" /\ req[2].pc = "done"
  /\ req[2].response.status = 200 /\ req[2].attempt = 2
  /\ req[2].starts[1] > req[1].waits[2].from

\* C24: once a /form request that carried an image has been answered, the
\* uploaded file is no longer on the local disk, and no copy of the image is
\* kept by any store.
C24_UploadGone ==
  \A r \in ReqIds :
    LET q == req[r]
    IN (q.route = "/form" /\ q.file /\ q.pc = "done") =>
         /\ ~q.onDisk
         /\ ~q.inCloud

\* what a retry loop has done and where it stands, apart from its name and
\* from what its caller answers
LoopView(q) ==
  [attempt |-> q.attempt, extCalls |-> q.extCalls, callState |-> q.callState,
   position |-> IF Terminal(q) THEN "ended" ELSE q.pc,
   lastError |-> q.lastError, returned |-> q.returned, thrown |-> q.thrown,
   starts |-> q.starts, history |-> q.history, waits |-> q.waits,
   wakeAt |-> q.wakeAt]

\* C25: syllabusGen, textQuery and problemSolving are the same retry machine:
\* they start alike, and from every state a loop reaches, the same outcome of
\* the attempt (a text, a retryable or another failure) and the end of a
\* backoff take all three to the same attempt count, waits, terminal state
\* and propagated error.
C25_LoopsEquivalent ==
  /\ LoopView(textQuery(IdleReq)) = LoopView(syllabusGen(IdleReq))
  /\ LoopView(textQuery(IdleReq)) = LoopView(problemSolving(IdleReq, TRUE))
  /\ \A r \in ReqIds :
       LET q == req[r]
       IN q.fn \in RetryFns =>
            /\ q.pc = "calling" =>
                 /\ \A error \in ServiceErrors \cup {FileNotFoundError} :
                      /\ LoopView(textQuery_catch(q, error))
                           = LoopView(syllabusGen_catch(q, error))
                      /\ LoopView(textQuery_catch(q, error))
                           = LoopView(problemSolving_catch(q, error))
                 /\ \A text \in ServiceTexts :
                      /\ LoopView(textQuery_return(q, text))
                           = LoopView(syllabusGen_return(q, text))
                      /\ LoopView(textQuery_return(q, text))
                           = LoopView(problemSolving_return(q, text))
            /\ q.pc = "sleeping" =>
                 /\ LoopView(textQuery_continue(q)) = LoopView(syllabusGen_continue(q))
                 /\ LoopView(textQuery_continue(q))
                      = LoopView(problemSolving_continue(q, TRUE))

C25_Witness ==
  /\ req[1].fn = "problemSolving" /\ req[1].pc = "calling"
  /\ req[1].attempt = 3 /\ Len(req[1].waits) = 2

----------------------------------------------------------------------------
(* The gate and the database connection as a state machine.                 *)

MongooseConnects ==
  /\ app.run = "connecting"
  /\ \E ok \in BOOLEAN :
       app' = IF ok THEN connectToDatabase_connected(app)
                    ELSE connectToDatabase_catch(app, ENV, now)
  /\ UNCHANGED <<ENV, now, req, store, session>>

ListCollectionsSettles ==
  /\ app.run = "listing"
  /\ \E ok \in BOOLEAN :
       app' = IF ok THEN connectToDatabase_return(app)
                    ELSE connectToDatabase_catch(app, ENV, now)
  /\ UNCHANGED <<ENV, now, req, store, session>>

ReconnectFires ==
  /\ app.pending > 0
  /\ now >= app.retryAt
  /\ app.runs < MaxRuns
  /\ app' = connectToDatabase([app EXCEPT !.pending = @ - 1], ENV, now)
  /\ UNCHANGED <<ENV, now, req, store, session>>

Served(r, served) ==
  /\ Becomes(r, served.req)
  /\ session' = served.session
  /\ UNCHANGED <<ENV, now, store, app>>

GetIndex(r) ==
  /\ Idle(r)
  /\ LET arrived == Arrives("/index", session)
     IN  Served(r, index_handler(arrived.req, arrived.session))

DevLogin(r) ==
  /\ Idle(r)
  /\ ENV.NODE_ENV # "production"
  /\ LET arrived == Arrives("/_dev-login", session)
     IN  Served(r, devLogin_handler(arrived.req, arrived.session))

Login(r) ==
  /\ Idle(r)
  /\ \E username \in Users, authentic \in BOOLEAN :
       /\ authentic => app.run \in {"listing", "connected"}
       /\ LET arrived == Arrives("/login", session)
          IN  Served(r, login_handler(arrived.req, arrived.session,
                                      username, authentic))

InitGate ==
  /\ ENV \in [GEMINI_KEY : {TRUE}, IS_VERCEL : BOOLEAN,
              NODE_ENV : {"development", "production"},
              MAINTENANCE_MODE : BOOLEAN, BYPASS_AUTH : BOOLEAN,
              DB_URL : BOOLEAN]
  /\ now = 0
  /\ req = [r \in ReqIds |-> IdleReq]
  /\ store = <<>>
  /\ app = connectToDatabase(NoApp, ENV, 0)
  /\ session = NoSession

NextDb == MongooseConnects \/ ListCollectionsSettles \/ ReconnectFires \/ Tick

NextGate ==
  GetIndex(1) \/ DevLogin(1) \/ Login(1) \/ RequestEnds(1) \/ NextDb

SpecGate == InitGate /\ [][NextGate]_vars

\* The event loop runs every due timer and every settled promise.
FairDb ==
  /\ WF_vars(MongooseConnects)
  /\ WF_vars(ListCollectionsSettles)
  /\ WF_vars(ReconnectFires)
  /\ WF_vars(Tick)

SpecDb == InitGate /\ [][NextDb]_vars /\ FairDb

----------------------------------------------------------------------------
(* The isLoggedIn gate and the database status.                             *)

\* Slot r serves a request for the guarded page /index in this step.
GateStep(r) == req[r].pc = "idle" /\ req'[r].route = "/index"

ToDebug == ENV.MAINTENANCE_MODE \/ (~app.dbStatus /\ ENV.NODE_ENV = "production")

DevBypass == ENV.NODE_ENV # "production" /\ ENV.BYPASS_AUTH

RedirectedTo(q, location) ==
  /\ q.response.status = 302
  /\ q.response.key = "location"
  /\ q.response.data.to = location

HandlerRan(q) == q.response.key = "view" /\ q.response.data.view = "index.ejs"

\* C26: the gate gives each request exactly one outcome, by priority:
\* (1) maintenance mode, or dbStatus false in production: redirect to
\* /_debug, also for an authenticated user; (2) else the development bypass
\* passes; (3) else an unauthenticated request has its URL stored in the
\* session, an error flashed, and is redirected to /login; (4) else it
\* passes.  So the handler runs exactly when (1) does not apply and the
\* request is authenticated or the bypass is on.
C26_GatePriority ==
  [][\A r \in ReqIds : GateStep(r) =>
       LET q == req'[r]
           flashed == "You must be logged in to access this page"
       IN  /\ q.responses = 1
           /\ q.nexts \in {0, 1}
           /\ (q.nexts = 1) # (q.response.status = 302)
           /\ q.nexts = 1 <=> HandlerRan(q)
           /\ ToDebug =>
                /\ RedirectedTo(q, "/_debug")
                /\ session'.redirectUrl = session.redirectUrl
                /\ flashed \notin session'.flash
           /\ ~ToDebug /\ DevBypass => HandlerRan(q)
           /\ ~ToDebug /\ ~DevBypass /\ ~q.isAuthenticated =>
                /\ RedirectedTo(q, "/login")
                /\ session'.redirectUrl = "/index"
                /\ flashed \in session'.flash
           /\ ~ToDebug /\ ~DevBypass /\ q.isAuthenticated => HandlerRan(q)
           /\ HandlerRan(q) <=> ~ToDebug /\ (q.isAuthenticated \/ DevBypass)
    ]_vars

\* An authenticated request was sent to /_debug, and the page is guarded by
\* nothing but the gate.
C26_Witness ==
  /\ req[1].route = "/index"
  /\ req[1].isAuthenticated
  /\ RedirectedTo(req[1], "/_debug")

\* C27: outside production, without a database and without BYPASS_AUTH, the
\* request for /index that follows a /_dev-login in the same session passes
\* the gate and reaches the page handler.
C27_DevLoginPasses ==
  [][\A r \in ReqIds :
       /\ GateStep(r)
       /\ ENV.NODE_ENV # "production"
       /\ ~ENV.DB_URL
       /\ ~ENV.BYPASS_AUTH
       /\ ~ENV.MAINTENANCE_MODE
       /\ session.user = "dev-user"
       /\ "Development login successful!" \in session.flash
       => HandlerRan(req'[r])
    ]_vars

\* This step ends a run of connectToDatabase in failure.
RunFails ==
  /\ app' # app
  /\ app'.run = "failed"

\* Reconnect timers set by this step.
Scheduled ==
  app'.pending - (app.pending - (IF app'.runs > app.runs THEN 1 ELSE 0))

====
